---- MODULE Spec2Model ----
(***************************************************************************)
(* The collection-buffering-flush pipeline of hissrv:                      *)
(*   app/services/scheduler.py     SchedulerService (start, stop, the tick *)
(*                                 loop and the five scheduled tasks)      *)
(*   app/services/data_storage.py  DataStorage.store_batch_data            *)
(*   app/core/influxdb.py          InfluxDBManager.write_points            *)
(* Wall-clock time is abstracted: which jobs are due in a tick, how long a *)
(* task runs and whether stop()'s bounded join times out are choices of    *)
(* the environment.  A timestamp field is "None" or "set".  A sample is    *)
(* identified by the number of the object that collect_all_data created.   *)
(***************************************************************************)
EXTENDS Integers, Sequences, FiniteSets, TLC

\* ---- bounds of the model
MaxStarts == 2
MaxSamples == 2
MaxBatch == 2
MaxDue == 1
ErrCap == 1
MaxLen == 3

\* ---- program constant: self.stats["errors"][-10:]
RING == 10
\* bound on the error list in the specification that exercises the ring
RingCap == 11

VARIABLES
  is_running,        \* SchedulerService.is_running
  scheduler_thread,  \* SchedulerService.scheduler_thread: 0 is None, else a thread
  jobs,              \* schedule.jobs: how often each task is registered
  cfg,               \* the loaded configuration (static after import)
  thr,               \* the threads running _run_scheduler, by spawn order
  main_pc,           \* the caller of start()/stop(): "idle" or inside stop()'s join
  data_buffer,       \* SchedulerService.data_buffer
  buffer_lock,       \* SchedulerService.buffer_lock: 0 is free, else its holder
  stats,             \* SchedulerService.stats
  next_id,           \* number of the next sample object to create
  appended,          \* history: the samples appended to data_buffer, in order
  drained,           \* history: the batches detached by flushes, in order
  store_calls,       \* history: arguments of the store_batch_data calls of flushes
  sb,                \* one call of store_batch_data: its inputs and its result
  qs                 \* the query side: the stored rows, a request and the
                     \* responses to the pages asked of it

vars == <<is_running, scheduler_thread, jobs, cfg, thr, main_pc, data_buffer,
          buffer_lock, stats, next_id, appended, drained, store_calls, sb, qs>>

schedVars == <<is_running, scheduler_thread, jobs, cfg, thr, main_pc, data_buffer,
               buffer_lock, stats, next_id, appended, drained, store_calls>>

Threads == 1..MaxStarts
Samples == 1..MaxSamples

\* ---- helpers on sequences
Range(s) == {s[i] : i \in 1..Len(s)}

RECURSIVE SeqsUpTo(_, _)
SeqsUpTo(S, n) ==
  IF n = 0 THEN {<<>>}
  ELSE LET shorter == SeqsUpTo(S, n - 1)
       IN shorter \cup {Append(s, x) : s \in {q \in shorter : Len(q) = n - 1}, x \in S}

\* python: lst[-n:]
LastN(s, n) == IF Len(s) <= n THEN s ELSE SubSeq(s, Len(s) - n + 1, Len(s))

\* how often x occurs in s
Count(s, x) == Cardinality({i \in 1..Len(s) : s[i] = x})

RECURSIVE Flatten(_)
Flatten(ss) == IF ss = <<>> THEN <<>> ELSE Head(ss) \o Flatten(Tail(ss))

\* n copies of x
Repeat(x, n) == [i \in 1..n |-> x]

(***************************************************************************)
(* data_storage.py / influxdb.py                                           *)
(***************************************************************************)
\* the state of the client a write goes through: the write succeeds, the
\* client raises, or write_api is None
ApiStates == {"ok", "raise", "none"}

\* create_point_from_history_data, for a sample whose encoding succeeds
Point(d) == [point |-> d]

\* InfluxDBManager.write_points: [ok: what it returns, sent: the record arguments
\* of the write_api.write calls it made, stored: the points that reached the store]
write_points(points, api) ==
  IF api # "none" /\ points # <<>>
  THEN IF api = "ok"
       THEN [ok |-> TRUE, sent |-> <<points>>, stored |-> points]
       ELSE [ok |-> FALSE, sent |-> <<points>>, stored |-> <<>>]
  ELSE [ok |-> FALSE, sent |-> <<>>, stored |-> <<>>]

\* mutant of EncodeLoop: the loop ends at the first sample that fails to encode
RECURSIVE EncodeLoopStops(_, _, _)
EncodeLoopStops(data_list, bad, acc) ==
  IF data_list = <<>> THEN acc
  ELSE LET d == Head(data_list)
       IN IF d \in bad
          THEN [acc EXCEPT !.failed = @ + 1, !.errors = Append(@, "create_point")]
          ELSE EncodeLoopStops(Tail(data_list), bad,
                 [acc EXCEPT !.points = Append(@, [point |-> d])])

\* the for loop of store_batch_data: bad is the set of samples for which
\* create_point_from_history_data raises
RECURSIVE EncodeLoop(_, _, _)
EncodeLoop(data_list, bad, acc) ==
  IF data_list = <<>> THEN acc
  ELSE LET d == Head(data_list)
       IN EncodeLoop(Tail(data_list), bad,
            IF d \in bad
            THEN [acc EXCEPT !.failed = @ + 1, !.errors = Append(@, "create_point")]
            ELSE [acc EXCEPT !.points = Append(@, Point(d))])

\* mutant of AfterWrite: a failed write is reported but not counted
AfterWriteForgets(enc, w) ==
  IF w.ok
  THEN [enc EXCEPT !.success = Len(enc.points)]
  ELSE [enc EXCEPT !.errors = Append(@, "write")]

\* what the batched write does to the result
AfterWrite(enc, w) ==
  IF w.ok
  THEN [enc EXCEPT !.success = Len(enc.points)]
  ELSE [enc EXCEPT !.failed = Len(enc.points), !.errors = Append(@, "write")]

\* the result dictionary store_batch_data starts from.  Besides the result's four
\* fields: points is the list built for write_points, calls the arguments of the
\* write_points calls, sent and stored what write_points did with them.
NewResult(data_list) ==
  [total |-> Len(data_list), success |-> 0, failed |-> 0, errors |-> <<>>,
   points |-> <<>>, calls |-> <<>>, sent |-> <<>>, stored |-> <<>>]

\* store_batch_data up to the end of its for loop
Encoded(data_list, bad) == EncodeLoop(data_list, bad, NewResult(data_list))

\* store_batch_data after its for loop: "if points:" and the batched write
Written(enc, api) ==
  IF enc.points # <<>>
  THEN LET w == write_points(enc.points, api)
       IN [AfterWrite(enc, w) EXCEPT !.calls = <<enc.points>>,
                                     !.sent = w.sent,
                                     !.stored = w.stored]
  ELSE enc

\* DataStorage.store_batch_data.  Its outer handler (failed = total) is not
\* reached: the loop catches what create_point_from_history_data raises and
\* write_points catches what the client raises.
store_batch_data(data_list, bad, api) ==
  IF data_list = <<>> THEN NewResult(data_list)
  ELSE Written(Encoded(data_list, bad), api)

(***************************************************************************)
(* scheduler.py: configuration and job registration                        *)
(***************************************************************************)
Groups == {"data_collection", "health_check", "data_cleanup", "statistics"}
Tasks == {"collect", "flush", "health_check", "cleanup", "statistics"}

\* the order in which _setup_schedules reaches the tasks
SetupOrder == <<"collect", "flush", "health_check", "cleanup", "statistics">>

\* the scheduler.<group> entry that enables a task
GroupOf(task) ==
  CASE task \in {"collect", "flush"} -> "data_collection"
    [] task = "health_check" -> "health_check"
    [] task = "cleanup" -> "data_cleanup"
    [] OTHER -> "statistics"

\* schedule.clear(): no job is registered
NoJobs == [task \in Tasks |-> 0]

\* A configuration: the groups with enabled: true, and the task (or "none") at
\* which _setup_schedules raises because the entry it reads there is malformed
\* (a scheduler.<group> entry that is no mapping, an interval that is no number).
\* The flush interval is read only when data_collection is enabled.
SetupRaisesAt(c, task) ==
  /\ c.fail = task
  /\ task = "flush" => "data_collection" \in c.enabled

\* _setup_schedules from its i-th task on: the jobs registered and whether it raised
RECURSIVE SetupFrom(_, _, _)
SetupFrom(c, i, js) ==
  IF i > Len(SetupOrder) THEN [jobs |-> js, raised |-> FALSE]
  ELSE LET task == SetupOrder[i]
       IN IF SetupRaisesAt(c, task) THEN [jobs |-> js, raised |-> TRUE]
          ELSE IF GroupOf(task) \in c.enabled
               THEN SetupFrom(c, i + 1, [js EXCEPT ![task] = @ + 1])
               ELSE SetupFrom(c, i + 1, js)

_setup_schedules(c, js) == SetupFrom(c, 1, js)

(***************************************************************************)
(* scheduler.py: state after construction                                  *)
(***************************************************************************)
NoResult == [total |-> 0, success |-> 0, failed |-> 0, errors |-> <<>>]

NewThread == [pc |-> "idle", pending |-> {}, task |-> "none", data |-> <<>>,
              res |-> NoResult, last |-> "none"]

InitStats == [last_collection_time |-> "None", last_collection_count |-> 0,
              last_flush_time |-> "None", last_flush_count |-> 0,
              total_collections |-> 0, total_stored_points |-> 0,
              buffer_size |-> 0, last_cleanup_time |-> "None", errors |-> <<>>]

NoCall == [phase |-> "none", data_list |-> <<>>, bad |-> {}, api |-> "ok",
           result |-> store_batch_data(<<>>, {}, "ok")]

\* no query has been made
NoQuery == [phase |-> "none"]

InitSched(configs) ==
  /\ is_running = FALSE
  /\ scheduler_thread = 0
  /\ jobs = NoJobs
  /\ cfg \in configs
  /\ thr = [t \in Threads |-> NewThread]
  /\ main_pc = "idle"
  /\ data_buffer = <<>>
  /\ buffer_lock = 0
  /\ stats = InitStats
  /\ next_id = 1
  /\ appended = <<>>
  /\ drained = <<>>
  /\ store_calls = <<>>

\* ---- the program counters of a thread
CollectPcs == {"c_scan", "c_lock", "c_extend", "c_size", "c_stats"}
FlushPcs == {"f_lock", "f_copy", "f_clear", "f_size", "f_store", "f_stats"}
TaskPcs == CollectPcs \cup FlushPcs \cup {"s_run"}
\* inside "with self.buffer_lock:"
CriticalPcs == {"c_extend", "c_size", "f_copy", "f_clear", "f_size"}
\* inside collect_all_data or store_batch_data
IoPcs == {"c_scan", "f_store"}
LivePcs == {"loop", "tick"} \cup TaskPcs

FirstPc(task) ==
  CASE task = "collect" -> "c_scan"
    [] task = "flush" -> "f_lock"
    [] OTHER -> "s_run"

Spawned == {t \in Threads : thr[t].pc # "idle"}

\* self.stats["errors"].append(...), once per entry of types
AppendErrors(types) == [stats EXCEPT !.errors = @ \o types]

\* A specification bounds its runs by a record b: errors, the length the error list
\* may reach; samples, the number of sample objects created; batch, the size of
\* one collection; due, the number of jobs due in one tick; starts, the number
\* of start() calls that register jobs.
\* room for n more recorded errors; a step that records none is never held back
ErrRoom(b, n) == n = 0 \/ Len(stats.errors) + n <= b.errors

(***************************************************************************)
(* scheduler.py: start() and stop()                                        *)
(***************************************************************************)
\* mutant of StartNoop: start() without its test of is_running
StartAgain ==
  /\ main_pc = "idle"
  /\ is_running
  /\ Cardinality({t \in Threads : thr[t].pc # "idle"}) < MaxStarts
  /\ LET s == _setup_schedules(cfg, jobs)
         t == Cardinality({u \in Threads : thr[u].pc # "idle"}) + 1
     IN /\ ~s.raised
        /\ jobs' = s.jobs
        /\ scheduler_thread' = t
        /\ thr' = [thr EXCEPT ![t].pc = "loop"]
  /\ UNCHANGED <<is_running, cfg, main_pc, data_buffer, buffer_lock, stats, next_id,
                 appended, drained, store_calls, sb, qs>>

\* start() while running: the early return
StartNoop ==
  /\ main_pc = "idle"
  /\ is_running
  /\ UNCHANGED vars

\* start() when _setup_schedules returns: the flag is set and a thread spawned
StartOk(b) ==
  /\ main_pc = "idle"
  /\ ~is_running
  /\ Cardinality(Spawned) < b.starts
  /\ LET s == _setup_schedules(cfg, jobs)
         t == Cardinality(Spawned) + 1
     IN /\ ~s.raised
        /\ jobs' = s.jobs
        /\ is_running' = TRUE
        /\ scheduler_thread' = t
        /\ thr' = [thr EXCEPT ![t].pc = "loop"]
  /\ UNCHANGED <<cfg, main_pc, data_buffer, buffer_lock, stats, next_id,
                 appended, drained, store_calls, sb, qs>>

\* start() when _setup_schedules raises: the jobs registered so far stay
StartFail(b) ==
  /\ main_pc = "idle"
  /\ ~is_running
  /\ LET s == _setup_schedules(cfg, jobs)
     IN /\ s.raised
        /\ \A task \in Tasks : s.jobs[task] <= b.starts
        /\ jobs' = s.jobs
  /\ UNCHANGED <<is_running, scheduler_thread, cfg, thr, main_pc, data_buffer,
                 buffer_lock, stats, next_id, appended, drained, store_calls, sb, qs>>

\* stop() while stopped: the early return
StopNoop ==
  /\ main_pc = "idle"
  /\ ~is_running
  /\ UNCHANGED vars

\* stop() while running, up to the join
StopBegin ==
  /\ main_pc = "idle"
  /\ is_running
  /\ is_running' = FALSE
  /\ main_pc' = "join"
  /\ UNCHANGED <<scheduler_thread, jobs, cfg, thr, data_buffer, buffer_lock,
                 stats, next_id, appended, drained, store_calls, sb, qs>>

\* the rest of stop(): schedule.clear()
StopClear ==
  /\ jobs' = NoJobs
  /\ main_pc' = "idle"
  /\ UNCHANGED <<is_running, scheduler_thread, cfg, thr, data_buffer, buffer_lock,
                 stats, next_id, appended, drained, store_calls, sb, qs>>

\* the thread has ended: is_alive() is false, or join returns
StopJoined ==
  /\ main_pc = "join"
  /\ thr[scheduler_thread].pc = "exited"
  /\ StopClear

\* join(timeout=5) gives up on a thread that is still alive
StopTimeout ==
  /\ main_pc = "join"
  /\ thr[scheduler_thread].pc # "exited"
  /\ StopClear

(***************************************************************************)
(* scheduler.py: _run_scheduler, with schedule.run_pending                 *)
(***************************************************************************)
\* what a step of thread t leaves alone besides thr and the named variables
ThreadFrame == <<is_running, scheduler_thread, jobs, cfg, main_pc, sb, qs>>

\* "while self.is_running" is false: the thread ends
LoopExit(t) ==
  /\ thr[t].pc = "loop"
  /\ ~is_running
  /\ thr' = [thr EXCEPT ![t].pc = "exited"]
  /\ UNCHANGED <<ThreadFrame, data_buffer, buffer_lock, stats, next_id, appended,
                 drained, store_calls>>

\* the jobs run_pending may find due: any of the registered ones
DueSets(b) ==
  {due \in SUBSET {task \in Tasks : jobs[task] > 0} : Cardinality(due) <= b.due}

\* mutant of RunPending: the loop does not test is_running
RunPendingAlways(t, b) ==
  /\ thr[t].pc = "loop"
  /\ \E due \in DueSets(b) :
       thr' = [thr EXCEPT ![t].pc = "tick", ![t].pending = due]
  /\ UNCHANGED <<ThreadFrame, data_buffer, buffer_lock, stats, next_id, appended,
                 drained, store_calls>>

\* "while self.is_running" is true: run_pending sorts the jobs that are due
RunPending(t, b) ==
  /\ thr[t].pc = "loop"
  /\ is_running
  /\ \E due \in DueSets(b) :
       thr' = [thr EXCEPT ![t].pc = "tick", ![t].pending = due]
  /\ UNCHANGED <<ThreadFrame, data_buffer, buffer_lock, stats, next_id, appended,
                 drained, store_calls>>

\* run_pending calls the next job of its sorted list
RunJob(t) ==
  /\ thr[t].pc = "tick"
  /\ \E task \in thr[t].pending :
       thr' = [thr EXCEPT ![t].pc = FirstPc(task), ![t].task = task,
                          ![t].pending = @ \ {task}, ![t].last = "none"]
  /\ UNCHANGED <<ThreadFrame, data_buffer, buffer_lock, stats, next_id, appended,
                 drained, store_calls>>

\* run_pending has returned: time.sleep(1)
TickEnd(t) ==
  /\ thr[t].pc = "tick"
  /\ thr[t].pending = {}
  /\ thr' = [thr EXCEPT ![t].pc = "loop", ![t].task = "none", ![t].last = "none"]
  /\ UNCHANGED <<ThreadFrame, data_buffer, buffer_lock, stats, next_id, appended,
                 drained, store_calls>>

\* an exception leaves run_pending between two jobs: the handler of the loop
\* records it, keeps the last RING errors and sleeps
LoopException(t, b) ==
  /\ thr[t].pc = "tick"
  /\ ErrRoom(b, 1)
  /\ stats' = [stats EXCEPT !.errors = LastN(Append(@, "scheduler"), RING)]
  /\ thr' = [thr EXCEPT ![t].pc = "loop", ![t].pending = {}, ![t].task = "none",
                        ![t].last = "none"]
  /\ UNCHANGED <<ThreadFrame, data_buffer, buffer_lock, next_id, appended,
                 drained, store_calls>>

(***************************************************************************)
(* scheduler.py: buffer_lock                                               *)
(***************************************************************************)
\* mutant of LockFree: acquire does not wait for the holder
LockIgnored == TRUE

\* threading.Lock.acquire returns only when the lock is free
LockFree == buffer_lock = 0

\* leaving "with self.buffer_lock:", by its end, a return or an exception
Released == 0

\* the task of thread t has returned to run_pending
Return(t, outcome) ==
  [thr EXCEPT ![t].pc = "tick", ![t].task = "none", ![t].data = <<>>,
              ![t].res = NoResult, ![t].last = outcome]

(***************************************************************************)
(* scheduler.py: _collect_data_to_buffer                                   *)
(***************************************************************************)
\* mutant of CollectRaise: _collect_data_to_buffer without its handler, in a loop
\* without its handler: the exception ends the thread
CollectRaiseEndsLoop(t, b) ==
  /\ thr[t].pc = "c_scan"
  /\ thr' = [thr EXCEPT ![t].pc = "exited"]
  /\ UNCHANGED <<ThreadFrame, data_buffer, buffer_lock, stats, next_id, appended,
                 drained, store_calls>>

\* collect_all_data raises: the handler records a collection error
CollectRaise(t, b) ==
  /\ thr[t].pc = "c_scan"
  /\ ErrRoom(b, 1)
  /\ stats' = AppendErrors(<<"collection">>)
  /\ thr' = Return(t, "collect_raised")
  /\ UNCHANGED <<ThreadFrame, data_buffer, buffer_lock, next_id, appended,
                 drained, store_calls>>

\* collect_all_data returns no sample: the early return
CollectNone(t) ==
  /\ thr[t].pc = "c_scan"
  /\ thr' = Return(t, "collect_none")
  /\ UNCHANGED <<ThreadFrame, data_buffer, buffer_lock, stats, next_id, appended,
                 drained, store_calls>>

\* collect_all_data returns n new samples
CollectSome(t, b) ==
  /\ thr[t].pc = "c_scan"
  /\ \E n \in 1..b.batch :
       /\ next_id + n - 1 <= b.samples
       /\ thr' = [thr EXCEPT ![t].pc = "c_lock",
                             ![t].data = [i \in 1..n |-> next_id + i - 1]]
       /\ next_id' = next_id + n
  /\ UNCHANGED <<ThreadFrame, data_buffer, buffer_lock, stats, appended,
                 drained, store_calls>>

\* with self.buffer_lock:
CollectAcquire(t) ==
  /\ thr[t].pc = "c_lock"
  /\ LockFree
  /\ buffer_lock' = t
  /\ thr' = [thr EXCEPT ![t].pc = "c_extend"]
  /\ UNCHANGED <<ThreadFrame, data_buffer, stats, next_id, appended,
                 drained, store_calls>>

\* mutant of CollectExtend: the buffer is assigned, not extended
CollectExtendOverwrites(t) ==
  /\ thr[t].pc = "c_extend"
  /\ data_buffer' = thr[t].data
  /\ appended' = appended \o thr[t].data
  /\ thr' = [thr EXCEPT ![t].pc = "c_size"]
  /\ UNCHANGED <<ThreadFrame, buffer_lock, stats, next_id, drained, store_calls>>

\* self.data_buffer.extend(history_data)
CollectExtend(t) ==
  /\ thr[t].pc = "c_extend"
  /\ data_buffer' = data_buffer \o thr[t].data
  /\ appended' = appended \o thr[t].data
  /\ thr' = [thr EXCEPT ![t].pc = "c_size"]
  /\ UNCHANGED <<ThreadFrame, buffer_lock, stats, next_id, drained, store_calls>>

\* mutant of CollectSize: the statistic is the size of the collection
CollectSizeOfBatch(t) ==
  /\ thr[t].pc = "c_size"
  /\ stats' = [stats EXCEPT !.buffer_size = Len(thr[t].data)]
  /\ buffer_lock' = Released
  /\ thr' = [thr EXCEPT ![t].pc = "c_stats"]
  /\ UNCHANGED <<ThreadFrame, data_buffer, next_id, appended, drained, store_calls>>

\* self.stats["buffer_size"] = len(self.data_buffer), and the end of the with block
CollectSize(t) ==
  /\ thr[t].pc = "c_size"
  /\ stats' = [stats EXCEPT !.buffer_size = Len(data_buffer)]
  /\ buffer_lock' = Released
  /\ thr' = [thr EXCEPT ![t].pc = "c_stats"]
  /\ UNCHANGED <<ThreadFrame, data_buffer, next_id, appended, drained, store_calls>>

\* the statistics of a collection, and the return
CollectStats(t) ==
  /\ thr[t].pc = "c_stats"
  /\ stats' = [stats EXCEPT !.last_collection_time = "set",
                            !.last_collection_count = Len(thr[t].data),
                            !.total_collections = @ + 1]
  /\ thr' = Return(t, "collect_done")
  /\ UNCHANGED <<ThreadFrame, data_buffer, buffer_lock, next_id, appended,
                 drained, store_calls>>

(***************************************************************************)
(* scheduler.py: _flush_buffer_to_storage                                  *)
(***************************************************************************)
\* with self.buffer_lock:
FlushAcquire(t) ==
  /\ thr[t].pc = "f_lock"
  /\ LockFree
  /\ buffer_lock' = t
  /\ thr' = [thr EXCEPT ![t].pc = "f_copy"]
  /\ UNCHANGED <<ThreadFrame, data_buffer, stats, next_id, appended,
                 drained, store_calls>>

\* mutant of FlushEmpty: the early return keeps the lock
FlushEmptyKeepsLock(t) ==
  /\ thr[t].pc = "f_copy"
  /\ data_buffer = <<>>
  /\ thr' = Return(t, "flush_empty")
  /\ UNCHANGED <<ThreadFrame, data_buffer, buffer_lock, stats, next_id, appended,
                 drained, store_calls>>

\* mutant of FlushEmpty: the early return comes after the statistics of a flush
FlushEmptyCounts(t) ==
  /\ thr[t].pc = "f_copy"
  /\ data_buffer = <<>>
  /\ buffer_lock' = Released
  /\ stats' = [stats EXCEPT !.last_flush_time = "set", !.last_flush_count = 0]
  /\ thr' = Return(t, "flush_empty")
  /\ UNCHANGED <<ThreadFrame, data_buffer, next_id, appended, drained, store_calls>>

\* "if not self.data_buffer: return", which leaves the with block
FlushEmpty(t) ==
  /\ thr[t].pc = "f_copy"
  /\ data_buffer = <<>>
  /\ buffer_lock' = Released
  /\ thr' = Return(t, "flush_empty")
  /\ UNCHANGED <<ThreadFrame, data_buffer, stats, next_id, appended,
                 drained, store_calls>>

\* mutant of FlushCopy: the batch is the first sample of the buffer only
FlushCopyFirst(t) ==
  /\ thr[t].pc = "f_copy"
  /\ data_buffer # <<>>
  /\ thr' = [thr EXCEPT ![t].pc = "f_clear", ![t].data = <<Head(data_buffer)>>]
  /\ UNCHANGED <<ThreadFrame, data_buffer, buffer_lock, stats, next_id, appended,
                 drained, store_calls>>

\* data_to_flush = self.data_buffer.copy()
FlushCopy(t) ==
  /\ thr[t].pc = "f_copy"
  /\ data_buffer # <<>>
  /\ thr' = [thr EXCEPT ![t].pc = "f_clear", ![t].data = data_buffer]
  /\ UNCHANGED <<ThreadFrame, data_buffer, buffer_lock, stats, next_id, appended,
                 drained, store_calls>>

\* mutant of FlushClear: the buffer is not cleared
FlushClearKeeps(t) ==
  /\ thr[t].pc = "f_clear"
  /\ drained' = Append(drained, thr[t].data)
  /\ thr' = [thr EXCEPT ![t].pc = "f_size"]
  /\ UNCHANGED <<ThreadFrame, data_buffer, buffer_lock, stats, next_id, appended,
                 store_calls>>

\* self.data_buffer.clear(): the batch is detached
FlushClear(t) ==
  /\ thr[t].pc = "f_clear"
  /\ data_buffer' = <<>>
  /\ drained' = Append(drained, thr[t].data)
  /\ thr' = [thr EXCEPT ![t].pc = "f_size"]
  /\ UNCHANGED <<ThreadFrame, buffer_lock, stats, next_id, appended, store_calls>>

\* self.stats["buffer_size"] = 0, and the end of the with block
FlushSize(t) ==
  /\ thr[t].pc = "f_size"
  /\ stats' = [stats EXCEPT !.buffer_size = 0]
  /\ buffer_lock' = Released
  /\ thr' = [thr EXCEPT ![t].pc = "f_store"]
  /\ UNCHANGED <<ThreadFrame, data_buffer, next_id, appended, drained, store_calls>>

\* the four fields of a store_batch_data result
ResultOf(r) == [total |-> r.total, success |-> r.success, failed |-> r.failed,
                errors |-> r.errors]

\* result = data_storage.store_batch_data(data_to_flush)
FlushStore(t, b) ==
  /\ thr[t].pc = "f_store"
  /\ \E bad \in SUBSET Range(thr[t].data), api \in ApiStates :
       LET r == store_batch_data(thr[t].data, bad, api)
       IN /\ ErrRoom(b, Len(r.errors))
          /\ thr' = [thr EXCEPT ![t].pc = "f_stats", ![t].res = ResultOf(r)]
  /\ store_calls' = Append(store_calls, thr[t].data)
  /\ UNCHANGED <<ThreadFrame, data_buffer, buffer_lock, stats, next_id, appended,
                 drained>>

\* the statistics of a flush, one recorded error per entry of result["errors"]
FlushStats(t) ==
  /\ thr[t].pc = "f_stats"
  /\ stats' = [stats EXCEPT !.last_flush_time = "set",
                            !.last_flush_count = Len(thr[t].data),
                            !.total_stored_points = @ + thr[t].res.success,
                            !.errors = @ \o Repeat("flush", Len(thr[t].res.errors))]
  /\ thr' = Return(t, "flush_done")
  /\ UNCHANGED <<ThreadFrame, data_buffer, buffer_lock, next_id, appended,
                 drained, store_calls>>

\* an exception inside the with block (extend or copy cannot allocate): the
\* with statement releases the lock and the task's handler records the error
RaiseInLock(t, b) ==
  /\ \/ thr[t].pc = "c_extend"
     \/ thr[t].pc = "f_copy" /\ data_buffer # <<>>
  /\ ErrRoom(b, 1)
  /\ stats' = AppendErrors(<<IF thr[t].pc = "c_extend" THEN "collection" ELSE "flush">>)
  /\ buffer_lock' = Released
  /\ thr' = Return(t, "raised_in_lock")
  /\ UNCHANGED <<ThreadFrame, data_buffer, next_id, appended, drained, store_calls>>

(***************************************************************************)
(* scheduler.py: _health_check, _cleanup_old_data, _generate_statistics    *)
(***************************************************************************)
\* the errors one run of a task can record, with the value it leaves in
\* last_cleanup_time: _health_check records one error per failed connection, or
\* one for an exception; _cleanup_old_data sets the time unless it raised before
\* and records the error of a failed result or of an exception;
\* _generate_statistics records the error of an exception
TaskOutcomes(task) ==
  CASE task = "health_check" ->
         {[errors |-> Repeat("health_check", n), cleanup_time |-> stats.last_cleanup_time]
            : n \in 0..2}
    [] task = "cleanup" ->
         {[errors |-> <<>>, cleanup_time |-> "set"],
          [errors |-> <<"cleanup">>, cleanup_time |-> "set"],
          [errors |-> <<"cleanup">>, cleanup_time |-> stats.last_cleanup_time]}
    [] OTHER ->
         {[errors |-> Repeat("statistics", n), cleanup_time |-> stats.last_cleanup_time]
            : n \in 0..1}

SimpleRun(t, b) ==
  /\ thr[t].pc = "s_run"
  /\ \E o \in TaskOutcomes(thr[t].task) :
       /\ ErrRoom(b, Len(o.errors))
       /\ stats' = [stats EXCEPT !.errors = @ \o o.errors,
                                 !.last_cleanup_time = o.cleanup_time]
  /\ thr' = Return(t, "task_done")
  /\ UNCHANGED <<ThreadFrame, data_buffer, buffer_lock, next_id, appended,
                 drained, store_calls>>

(***************************************************************************)
(* The scheduler: start(), stop() and the threads, in any interleaving     *)
(***************************************************************************)
\* a step of a thread in a task that touches the buffer, or in the loop
BufferStep(t, b) ==
  \/ LoopExit(t)
  \/ RunPending(t, b)
  \/ RunJob(t)
  \/ TickEnd(t)
  \/ LoopException(t, b)
  \/ CollectRaise(t, b)
  \/ CollectNone(t)
  \/ CollectSome(t, b)
  \/ CollectAcquire(t)
  \/ CollectExtend(t)
  \/ CollectSize(t)
  \/ CollectStats(t)
  \/ FlushAcquire(t)
  \/ FlushEmpty(t)
  \/ FlushCopy(t)
  \/ FlushClear(t)
  \/ FlushSize(t)
  \/ FlushStore(t, b)
  \/ FlushStats(t)
  \/ RaiseInLock(t, b)

\* start() and stop() under a configuration that _setup_schedules accepts
Control(b) ==
  \/ StartNoop
  \/ StartOk(b)
  \/ StopNoop
  \/ StopBegin
  \/ StopJoined
  \/ StopTimeout

\* ---- the pipeline with only data_collection enabled: collect and flush
BufferConfigs == {[enabled |-> {"data_collection"}, fail |-> "none"]}
BufferBounds == [errors |-> ErrCap, samples |-> MaxSamples, batch |-> MaxBatch,
                 due |-> MaxDue, starts |-> MaxStarts]

Init == InitSched(BufferConfigs) /\ sb = NoCall /\ qs = NoQuery

Next == Control(BufferBounds) \/ \E t \in Threads : BufferStep(t, BufferBounds)

Spec == Init /\ [][Next]_vars

(***************************************************************************)
(* Properties of the buffer (specification Spec)                           *)
(***************************************************************************)
\* every sample taken by a drain, then the samples still in the buffer
Accounted == Flatten(drained) \o data_buffer

\* C1: buffer conservation.  In every reachable state each sample occurs as often
\* in the drained batches plus the buffer as it was appended: no sample is lost
\* and none is in two drained batches.
C1_BufferConservation ==
  \A s \in Range(appended) \cup Range(Accounted) :
    Count(Accounted, s) = Count(appended, s)

\* C1 witness: a batch has been drained and an append has followed it
C1_Witness == drained # <<>> /\ data_buffer # <<>> /\ Len(appended) >= 2

C3_MutualExclusion ==
  /\ Cardinality({t \in Threads : thr[t].pc \in CriticalPcs}) <= 1
  /\ \A t \in Threads : thr[t].pc \in CriticalPcs => buffer_lock = t

\* C3 witness: one thread is inside the section while another waits for the lock
C3_Witness ==
  \E t, u \in Threads :
    /\ t # u
    /\ thr[t].pc \in CriticalPcs
    /\ thr[u].pc \in {"c_lock", "f_lock"}

\* C4: the lock is never held across I/O.  A thread inside collect_all_data or
\* store_batch_data does not hold buffer_lock, and a thread holds it only inside
\* the with block: it is released by the end of the block, by the empty-buffer
\* return and by an exception.
C4_NoLockAcrossIo ==
  \A t \in Threads :
    /\ thr[t].pc \in IoPcs => buffer_lock # t
    /\ buffer_lock = t => thr[t].pc \in CriticalPcs

\* C4 witness: one thread has left the with block by an exception, and another
\* thread has acquired the lock since
C4_Witness ==
  \E t, u \in Threads :
    /\ t # u
    /\ thr[t].last = "raised_in_lock"
    /\ buffer_lock = u
    /\ thr[u].pc \in CriticalPcs

\* the result of store_batch_data for an empty list
ZeroResult ==
  [total |-> 0, success |-> 0, failed |-> 0, errors |-> <<>>, points |-> <<>>,
   calls |-> <<>>, sent |-> <<>>, stored |-> <<>>]

\* C8: a flush that finds the buffer empty is a no-op.  The step of a thread at
\* the emptiness test returns to run_pending and leaves data_buffer, stats (with
\* buffer_size, last_flush_time, last_flush_count, total_stored_points and
\* errors) and the history of store_batch_data calls unchanged; store_batch_data
\* of an empty list returns total, success, failed = 0 and no errors without a
\* write call.
C8_EmptyFlushNoop ==
  /\ [][\A t \in Threads :
          (thr[t].pc = "f_copy" /\ data_buffer = <<>> /\ thr'[t] # thr[t]) =>
            /\ thr'[t].pc = "tick"
            /\ UNCHANGED <<data_buffer, stats, store_calls, drained>>]_vars
  /\ [](\A api \in ApiStates, bad \in SUBSET Samples :
          store_batch_data(<<>>, bad, api) = ZeroResult)

\* C8 witness: a flush has returned on an empty buffer after a collection
C8_Witness ==
  \E t \in Threads :
    thr[t].last = "flush_empty" /\ stats.total_collections > 0

(***************************************************************************)
(* The scheduler with every task enabled, under a configuration that       *)
(* _setup_schedules accepts and one whose flush_interval is malformed      *)
(* (specification SpecSched)                                               *)
(***************************************************************************)
SchedSamples == 1

SchedConfigs ==
  { [enabled |-> Groups, fail |-> "none"],
    [enabled |-> Groups, fail |-> "flush"] }

SchedBounds == [errors |-> ErrCap, samples |-> SchedSamples, batch |-> MaxBatch,
                due |-> MaxDue, starts |-> MaxStarts]

InitAll == InitSched(SchedConfigs) /\ sb = NoCall /\ qs = NoQuery

NextAll ==
  \/ Control(SchedBounds)
  \/ StartFail(SchedBounds)
  \/ \E t \in Threads : BufferStep(t, SchedBounds) \/ SimpleRun(t, SchedBounds)

SpecSched == InitAll /\ [][NextAll]_vars

\* C5: scheduled tasks are serial.  At no instant are two threads inside a
\* scheduled task (collect, flush, health check, cleanup, statistics).
C5_TasksSerial ==
  Cardinality({t \in Threads : thr[t].pc \in TaskPcs}) <= 1

\* a step of start() that registers a job
Registers == \E task \in Tasks : jobs'[task] > jobs[task]

\* a step that spawns one thread running _run_scheduler and keeps it in
\* scheduler_thread
SpawnsOne ==
  \E t \in Threads :
    /\ thr[t].pc = "idle"
    /\ thr' = [thr EXCEPT ![t].pc = "loop"]
    /\ scheduler_thread' = t

\* what C6 says of stop(), of start() in Running, and of is_running
StopAndNoops ==
  /\ is_running => Spawned' = Spawned /\ jobs' = jobs
  /\ Spawned' # Spawned => ~is_running /\ is_running'
  /\ (~is_running /\ is_running') => main_pc = "idle" /\ SpawnsOne
  /\ (is_running /\ ~is_running') => main_pc = "idle" /\ main_pc' = "join"
  /\ (main_pc = "idle" /\ main_pc' = "join") => is_running /\ ~is_running'
  /\ (main_pc = "join" /\ main_pc' = "idle") => ~is_running' /\ jobs' = NoJobs
  /\ (~is_running /\ main_pc = "idle") =>
       /\ main_pc' = "idle"
       /\ \A task \in Tasks : jobs'[task] >= jobs[task]

\* in Running the loop that start() spawned is alive
RunningHasLoop ==
  is_running =>
    /\ scheduler_thread \in Spawned
    /\ thr[scheduler_thread].pc \in LivePcs

ErrConfigs == {[enabled |-> {"health_check"}, fail |-> "none"]}

ErrBounds == [errors |-> RingCap, samples |-> 0, batch |-> 0, due |-> 1,
              starts |-> 1]

InitErrors == InitSched(ErrConfigs) /\ sb = NoCall /\ qs = NoQuery

NextErrors ==
  \/ Control(ErrBounds)
  \/ \E t \in Threads :
       \/ LoopExit(t)
       \/ RunPending(t, ErrBounds)
       \/ RunJob(t)
       \/ TickEnd(t)
       \/ SimpleRun(t, ErrBounds)

SpecErrors == InitErrors /\ [][NextErrors]_vars

\* C7: the recent-errors list is bounded.  In every reachable state
\* stats["errors"] holds at most RING = 10 entries.
C7_ErrorsBounded == Len(stats.errors) <= RING

(***************************************************************************)
(* One call of store_batch_data, for every input list, every set of        *)
(* samples whose encoding raises and every state of the client (SpecStore) *)
(***************************************************************************)
StoreInputs ==
  {[phase |-> "call", data_list |-> l, bad |-> B, api |-> a, result |-> NewResult(l)]
     : l \in SeqsUpTo(Samples, MaxLen), B \in SUBSET Samples, a \in ApiStates}

InitStore == InitSched(BufferConfigs) /\ sb \in StoreInputs /\ qs = NoQuery

\* "if not data_list: return result", else the loop over data_list
StoreEncode ==
  /\ sb.phase = "call"
  /\ sb' = IF sb.data_list = <<>>
           THEN [sb EXCEPT !.phase = "done"]
           ELSE [sb EXCEPT !.phase = "encoded",
                           !.result = Encoded(sb.data_list, sb.bad)]
  /\ UNCHANGED <<schedVars, qs>>

\* "if points:" with the batched write, and the return
StoreWrite ==
  /\ sb.phase = "encoded"
  /\ sb' = [sb EXCEPT !.phase = "done", !.result = Written(sb.result, sb.api)]
  /\ UNCHANGED <<schedVars, qs>>

NextStore == StoreEncode \/ StoreWrite

SpecStore == InitStore /\ [][NextStore]_vars

\* the samples of a list that encode, in input order, and their points
Encodable(l, B) == SelectSeq(l, LAMBDA d : d \notin B)
PointsOf(l, B) == [i \in 1..Len(Encodable(l, B)) |-> Point(Encodable(l, B)[i])]
FailingIn(l, B) == Len(l) - Len(Encodable(l, B))

\* C9: per-item encode failures are isolated.  After the loop failed and errors
\* hold one count and one entry per failing sample and points holds the point of
\* every other sample, in input order; the call ends with exactly one
\* write_points call, whose argument is that list, or with none when the list is
\* empty; the entries of the failing samples stay in errors, and failed keeps
\* their count when the write did not fail.
C9_EncodeFailuresIsolated ==
  LET l == sb.data_list
      B == sb.bad
      r == sb.result
  IN /\ sb.phase = "encoded" =>
          /\ r.failed = FailingIn(l, B)
          /\ r.errors = Repeat("create_point", FailingIn(l, B))
          /\ r.points = PointsOf(l, B)
          /\ r.calls = <<>>
     /\ sb.phase = "done" =>
          /\ r.points = PointsOf(l, B)
          /\ r.calls = IF PointsOf(l, B) = <<>> THEN <<>> ELSE <<PointsOf(l, B)>>
          /\ Count(r.errors, "create_point") = FailingIn(l, B)
          /\ (r.points = <<>> \/ sb.api = "ok") =>
               /\ r.failed = FailingIn(l, B)
               /\ Len(r.errors) = FailingIn(l, B)

\* C9 witness: a sample that fails to encode precedes one that is written
C9_Witness ==
  /\ sb.phase = "done"
  /\ sb.result.success >= 1
  /\ \E i, j \in 1..Len(sb.data_list) :
       i < j /\ sb.data_list[i] \in sb.bad /\ sb.data_list[j] \notin sb.bad

\* C10: when the batched write fails (the client raises or there is no client,
\* so write_points returns false) the result has success = 0, counts every point
\* of the batch as failed and holds an error entry; write_points was called once
\* and nothing was sent twice.
C10_FailedWriteCounted ==
  LET r == sb.result
  IN (sb.phase = "done" /\ r.points # <<>> /\ sb.api # "ok") =>
       /\ r.success = 0
       /\ r.failed >= Len(r.points)
       /\ Count(r.errors, "write") = 1
       /\ Len(r.calls) = 1
       /\ Len(r.sent) <= 1
       /\ r.stored = <<>>

\* C10 witness: the client raises on a batch of two points
C10_Witness ==
  /\ sb.phase = "done"
  /\ sb.api = "raise"
  /\ Len(sb.result.points) >= 2
  /\ sb.result.sent # <<>>

(***************************************************************************)
(* A flush whose batched write fails (specification Spec)                  *)
(***************************************************************************)
\* the batched write of the flush of thread t has failed
WriteFailed(t) ==
  /\ thr[t].pc = "f_stats"
  /\ thr[t].res.success = 0
  /\ "write" \in Range(thr[t].res.errors)

\* C11: there is no backpressure.  When the write of a flush has failed the
\* batch has not left the buffer: data_buffer still holds every sample of the
\* batch, so its length grows over the flush ticks of a run in which every write
\* fails instead of returning to zero.
C11_NoBackpressure ==
  \A t \in Threads :
    WriteFailed(t) =>
      /\ Len(data_buffer) >= Len(thr[t].data)
      /\ Range(thr[t].data) \subseteq Range(data_buffer)

(***************************************************************************)
(* Shutdown (specification SpecStop): the scheduler of SpecSched where     *)
(* join(timeout=5) returns and a thread that can take a step takes one: a  *)
(* task in flight comes to its end                                         *)
(***************************************************************************)
\* a step of thread t, in the loop or in any of the five tasks
ThreadStep(t) == BufferStep(t, SchedBounds) \/ SimpleRun(t, SchedBounds)

SpecStop ==
  /\ InitAll
  /\ [][NextAll]_vars
  /\ WF_vars(StopJoined \/ StopTimeout)
  /\ \A t \in Threads : WF_vars(ThreadStep(t))

\* no thread is in the loop or in a task
AllExited == \A t \in Threads : thr[t].pc \in {"idle", "exited"}

\* C12: shutdown terminates.  A stop() in Running returns, with is_running
\* false, whether or not its join timed out, and its return leaves the thread and
\* the task it is in untouched; a loop starts a tick only while is_running is
\* true; and when the scheduler stays Stopped every loop exits for good.
C12_ShutdownTerminates ==
  /\ (main_pc = "join") ~> (main_pc = "idle" /\ ~is_running)
  /\ [][/\ (main_pc = "join" /\ main_pc' = "idle") => ~is_running' /\ thr' = thr
        /\ \A t \in Threads :
             (thr[t].pc = "loop" /\ thr'[t].pc = "tick") => is_running]_vars
  /\ <>[](~is_running) => <>[]AllExited

\* C12 witness: stop() has returned while the task of its thread is in flight
C12_Witness ==
  /\ main_pc = "idle"
  /\ ~is_running
  /\ jobs = NoJobs
  /\ scheduler_thread \in Threads
  /\ thr[scheduler_thread].pc \in TaskPcs

(***************************************************************************)
(* Errors of tasks and of the tick (specification SpecSched)               *)
(***************************************************************************)
\* the "type" a handler records: that of the task the thread is in, or
\* "scheduler" in the handler of the loop
ErrorTypeOf(th) ==
  CASE th.pc = "tick" -> "scheduler"
    [] th.task = "collect" -> "collection"
    [] OTHER -> th.task

\* the step records n errors of type ty (the handler of the loop keeps the last
\* RING entries)
Records(ty, n) ==
  \/ stats'.errors = stats.errors \o Repeat(ty, n)
  \/ ty = "scheduler" /\ stats'.errors = LastN(stats.errors \o Repeat(ty, n), RING)

\* C13: no task error stops the pipeline.  A step that records an error is a
\* step of one thread in a task or in a tick; the entries it adds carry the type
\* of that task ("scheduler" for the tick); it leaves is_running as it is and the
\* thread in its loop.  A thread leaves its loop only when is_running is false,
\* and a thread in its loop while is_running is true can start the next tick.
C13_ErrorsDoNotStop ==
  /\ [][/\ stats'.errors # stats.errors =>
             /\ is_running' = is_running
             /\ \E t \in Threads :
                  /\ thr[t].pc \in TaskPcs \cup {"tick"}
                  /\ thr'[t].pc \in {"tick", "loop"}
                  /\ \A u \in Threads \ {t} : thr'[u] = thr[u]
                  /\ \E n \in 1..MaxLen + 1 : Records(ErrorTypeOf(thr[t]), n)
        /\ \A t \in Threads :
             (thr[t].pc # "exited" /\ thr'[t].pc = "exited") => ~is_running]_vars
  /\ [](\A t \in Threads :
          (is_running /\ thr[t].pc = "loop") => ENABLED RunPending(t, SchedBounds))

\* C13 witness: after a recorded error the one loop of a running scheduler is
\* in a task again
C13_Witness ==
  /\ is_running
  /\ Cardinality(Spawned) = 1
  /\ stats.errors # <<>>
  /\ \E t \in Threads : thr[t].pc \in TaskPcs

(***************************************************************************)
(* query_service.py: the SQL text of query_history_data.  A string is a    *)
(* sequence of characters; the text of a statement is a sequence of tokens,*)
(* each a word of the statement's template, a character of an interpolated *)
(* string, or an interpolated number or timestamp.                         *)
(***************************************************************************)
\* a word of the template, or one character of an interpolated string
W(s) == [k |-> "w", s |-> s, n |-> 0, body |-> <<>>]

\* an interpolated integer, or a timestamp in isoformat()
Num(n) == [k |-> "n", s |-> "", n |-> n, body |-> <<>>]

\* the characters of an interpolated string
Text(v) == [i \in 1..Len(v) |-> W(v[i])]

Quote == W("'")

\* f"'{x}'"
Quoted(body) == <<Quote>> \o body \o <<Quote>>

\* sep.join(parts)
RECURSIVE Join(_, _)
Join(parts, sep) ==
  IF parts = <<>> THEN <<>>
  ELSE IF Len(parts) = 1 THEN parts[1]
  ELSE parts[1] \o <<sep>> \o Join(Tail(parts), sep)

\* an optional list of a request: None, or a list
Absent == [present |-> FALSE, items |-> <<>>]
Given(items) == [present |-> TRUE, items |-> items]

\* "if request.redis_keys:" and the like: neither None nor empty
Truthy(opt) == opt.present /\ opt.items # <<>>

\* key.split(':')[0]
RECURSIVE _get_measurement_from_redis_key(_)
_get_measurement_from_redis_key(redis_key) ==
  IF redis_key = <<>> \/ Head(redis_key) = ":" THEN <<>>
  ELSE <<Head(redis_key)>> \o _get_measurement_from_redis_key(Tail(redis_key))

\* QueryService._build_time_filter
_build_time_filter(start_time, end_time) ==
  <<W("time"), W(">=")>> \o Quoted(<<Num(start_time)>>)
     \o <<W("AND"), W("time"), W("<=")>> \o Quoted(<<Num(end_time)>>)

\* f"({' OR '.join([f"{field} = '{v}'" for v in values])})"
OrGroup(field, values) ==
  <<W("(")>>
     \o Join([i \in 1..Len(values) |-> <<W(field), W("=")>> \o Quoted(Text(values[i]))],
             W("OR"))
     \o <<W(")")>>

\* QueryService._build_filters
_build_filters(request) ==
  (IF Truthy(request.redis_keys)
     THEN <<OrGroup("redis_key", request.redis_keys.items)>> ELSE <<>>)
  \o (IF Truthy(request.point_ids)
        THEN <<OrGroup("point_id", request.point_ids.items)>> ELSE <<>>)
  \o (IF Truthy(request.sources)
        THEN <<OrGroup("source", request.sources.items)>> ELSE <<>>)

\* the instant of a query, and timedelta(hours=24), in seconds
Now == 90060
Day == 86400

\* "request.end_time or now" and "request.start_time or (end_time - 24h)"; a
\* time of a request is [present, t]
EndTime(request) ==
  IF request.end_time.present THEN request.end_time.t ELSE Now
StartTime(request) ==
  IF request.start_time.present THEN request.start_time.t
  ELSE EndTime(request) - Day

\* where_clause of query_history_data
WhereClause(request) ==
  Join(<<_build_time_filter(StartTime(request), EndTime(request))>>
         \o _build_filters(request),
       W("AND"))

\* measurement of query_history_data
Measurement(request) ==
  IF Truthy(request.redis_keys)
  THEN Text(_get_measurement_from_redis_key(request.redis_keys.items[1]))
  ELSE <<W("*")>>

\* query of query_history_data: SELECT time, redis_key, point_id, source, value
\* FROM ... WHERE ... ORDER BY time DESC LIMIT ... OFFSET ...
QueryText(request) ==
  <<W("SELECT"), W("FROM")>> \o Measurement(request)
     \o <<W("WHERE")>> \o WhereClause(request)
     \o <<W("ORDER BY time DESC"), W("LIMIT"), Num(request.page_size),
          W("OFFSET"), Num((request.page - 1) * request.page_size)>>

(***************************************************************************)
(* The store's reading of a statement (influxdb.py: query_api.query).      *)
(* Between two quotes the text is a string literal, in which two quotes in *)
(* a row stand for one quote character.                                    *)
(***************************************************************************)
\* a string literal, as the store reads it
Literal(body) == [k |-> "lit", s |-> "", n |-> 0, body |-> body]

LexError == [ok |-> FALSE, toks |-> <<>>]

\* the tokens of a text from position i on: lit tells whether a literal is open
\* and cur is what it holds so far
RECURSIVE Lex(_, _, _, _, _)
Lex(text, i, lit, cur, out) ==
  IF i > Len(text)
  THEN IF lit THEN LexError ELSE [ok |-> TRUE, toks |-> out]
  ELSE IF ~lit
       THEN IF text[i] = Quote
            THEN Lex(text, i + 1, TRUE, <<>>, out)
            ELSE Lex(text, i + 1, FALSE, <<>>, Append(out, text[i]))
       ELSE IF text[i] # Quote
            THEN Lex(text, i + 1, TRUE, Append(cur, text[i]), out)
            ELSE IF i < Len(text) /\ text[i + 1] = Quote
                 THEN Lex(text, i + 2, TRUE, Append(cur, Quote), out)
                 ELSE Lex(text, i + 1, FALSE, <<>>, Append(out, Literal(cur)))

Tokens(text) == Lex(text, 1, FALSE, <<>>, <<>>)

EndOfText == W("")
At(L, i) == IF i \in 1..Len(L) THEN L[i] ELSE EndOfText

\* the columns a condition may compare, and the characters of a table name
Columns == {"redis_key", "point_id", "source"}
Letters == {"a", "b", "c", "d", "e", "f", "g", "h", "i", "j", "k", "l", "m",
            "n", "o", "p", "q", "r", "s", "t", "u", "v", "w", "x", "y", "z"}

IsLiteral(tok) == tok.k = "lit"
IsTimeLiteral(tok) == tok.k = "lit" /\ Len(tok.body) = 1 /\ tok.body[1].k = "n"
IsNumber(tok) == tok.k = "n"
IsLetter(tok) == tok.k = "w" /\ tok.s \in Letters

ParseError == [ok |-> FALSE, conds |-> <<>>, groups |-> <<>>, next |-> 0]

\* column = 'literal' ( OR column = 'literal' )* ")" from position i on
RECURSIVE ParseConds(_, _, _)
ParseConds(L, i, acc) ==
  IF /\ At(L, i).k = "w" /\ At(L, i).s \in Columns
     /\ At(L, i + 1) = W("=")
     /\ IsLiteral(At(L, i + 2))
  THEN LET conds == Append(acc, [column |-> At(L, i).s, body |-> At(L, i + 2).body])
       IN IF At(L, i + 3) = W("OR") THEN ParseConds(L, i + 4, conds)
          ELSE IF At(L, i + 3) = W(")")
               THEN [ok |-> TRUE, conds |-> conds, groups |-> <<>>, next |-> i + 4]
               ELSE ParseError
  ELSE ParseError

\* ( AND "(" conditions )* from position i on
RECURSIVE ParseGroups(_, _, _)
ParseGroups(L, i, acc) ==
  IF At(L, i) = W("AND")
  THEN IF At(L, i + 1) = W("(")
       THEN LET g == ParseConds(L, i + 2, <<>>)
            IN IF g.ok THEN ParseGroups(L, g.next, Append(acc, g.conds))
               ELSE ParseError
       ELSE ParseError
  ELSE [ok |-> TRUE, conds |-> <<>>, groups |-> acc, next |-> i]

NoWhere == [ok |-> FALSE, lo |-> 0, hi |-> 0, groups |-> <<>>, next |-> 0]

\* time >= 'lo' AND time <= 'hi' ( AND group )* from position i on
ParseWhere(L, i) ==
  IF /\ At(L, i) = W("time") /\ At(L, i + 1) = W(">=")
     /\ IsTimeLiteral(At(L, i + 2))
     /\ At(L, i + 3) = W("AND")
     /\ At(L, i + 4) = W("time") /\ At(L, i + 5) = W("<=")
     /\ IsTimeLiteral(At(L, i + 6))
  THEN LET g == ParseGroups(L, i + 7, <<>>)
       IN IF g.ok
          THEN [ok |-> TRUE, lo |-> At(L, i + 2).body[1].n,
                hi |-> At(L, i + 6).body[1].n, groups |-> g.groups, next |-> g.next]
          ELSE NoWhere
  ELSE NoWhere

\* the length of the table name that starts at position i
RECURSIVE NameLen(_, _)
NameLen(L, i) == IF IsLetter(At(L, i)) THEN 1 + NameLen(L, i + 1) ELSE 0

NoStatement == [ok |-> FALSE, table |-> <<>>, where |-> NoWhere, limit |-> 0,
                offset |-> 0]

\* SELECT ... FROM table WHERE ... ORDER BY time DESC LIMIT n OFFSET m
Parse(L) ==
  LET n == NameLen(L, 3)
      w == ParseWhere(L, 4 + n)
      j == w.next
  IN IF /\ At(L, 1) = W("SELECT") /\ At(L, 2) = W("FROM")
        /\ n > 0
        /\ At(L, 3 + n) = W("WHERE")
        /\ w.ok
        /\ At(L, j) = W("ORDER BY time DESC")
        /\ At(L, j + 1) = W("LIMIT") /\ IsNumber(At(L, j + 2))
        /\ At(L, j + 3) = W("OFFSET") /\ IsNumber(At(L, j + 4))
        /\ Len(L) = j + 4
     THEN [ok |-> TRUE, table |-> [i \in 1..n |-> L[2 + i].s], where |-> w,
           limit |-> At(L, j + 2).n, offset |-> At(L, j + 4).n]
     ELSE NoStatement

\* the statement the store reads in a text
Statement(text) ==
  IF Tokens(text).ok THEN Parse(Tokens(text).toks) ELSE NoStatement

\* the row satisfies the WHERE clause w
Satisfies(row, w) ==
  /\ row.time >= w.lo
  /\ row.time <= w.hi
  /\ \A g \in 1..Len(w.groups) :
       \E c \in 1..Len(w.groups[g]) :
         w.groups[g][c].body = Text(row[w.groups[g][c].column])

(***************************************************************************)
(* The time-series store and query_history_data                            *)
(***************************************************************************)
\* the whole key as the name of the table
create_measurement_name_whole(redis_key) == redis_key

\* DataStorage.create_measurement_name: redis_key.split(':')[0], the table a
\* sample is written to
RECURSIVE create_measurement_name(_)
create_measurement_name(redis_key) ==
  IF redis_key = <<>> \/ Head(redis_key) = ":" THEN <<>>
  ELSE <<Head(redis_key)>> \o create_measurement_name(Tail(redis_key))

\* the orders in which the store may return the rows of S for ORDER BY time
\* DESC: rows with equal time come in any order
Orders(S) ==
  {o \in [1..Cardinality(S) -> S] :
     /\ \A i, j \in 1..Cardinality(S) : i # j => o[i] # o[j]
     /\ \A i, j \in 1..Cardinality(S) : i < j => o[i].time >= o[j].time}

\* LIMIT limit OFFSET offset of a sequence
Page(rows, limit, offset) ==
  IF offset >= Len(rows) THEN <<>>
  ELSE SubSeq(rows, offset + 1,
              IF offset + limit < Len(rows) THEN offset + limit ELSE Len(rows))

\* the store rejects the text: it is no statement, or it names no table
Rejects(text, store) ==
  \/ ~Statement(text).ok
  \/ Statement(text).table \notin {create_measurement_name(r.redis_key) : r \in store}

\* query_api.query(text) on a store that answers: the rows of the table that
\* satisfy the WHERE clause, in the order the store gives them, cut to the page
Execute(text, store, order) ==
  LET st == Statement(text)
      Selected(r) == /\ create_measurement_name(r.redis_key) = st.table
                     /\ Satisfies(r, st.where)
  IN Page(SelectSeq(order, Selected), st.limit, st.offset)

\* InfluxDBManager.query_data: [] when there is no query_api and when the query
\* raises.  failed tells whether the store failed to execute the query.
query_data(text, api, store, order) ==
  IF api = "ok" /\ ~Rejects(text, store)
  THEN [records |-> Execute(text, store, order), failed |-> FALSE]
  ELSE [records |-> <<>>, failed |-> TRUE]

\* QueryService._convert_record_to_history_data, for a row this service wrote
_convert_record_to_history_data(record) ==
  [timestamp |-> record.time, redis_key |-> record.redis_key,
   point_id |-> record.point_id, value |-> record.value, source |-> record.source]

\* mutant of HasMore: any non-empty page is taken to have a successor
HasMoreIfAny(history_data, request) == Len(history_data) > 0

\* has_more = len(history_data) == request.page_size
HasMore(history_data, request) == Len(history_data) = request.page_size

\* the response of the except branch of query_history_data
ErrorResponse(request) ==
  [status |-> "error", message |-> "failed", data |-> <<>>, total |-> 0,
   page |-> request.page, page_size |-> request.page_size, has_more |-> FALSE]

\* QueryService.query_history_data, from the records that query_data returned
\* for QueryText(request) on.  Nothing in its try block raises: the except
\* branch is not reached, since query_data catches what the store raises.
\* history_data holds one sample per record: every record of a row converts.
query_history_data(request, results) ==
  [status |-> "success",
   message |-> IF Len(results) > 0 THEN "found" ELSE "none",
   data |-> [i \in 1..Len(results) |-> _convert_record_to_history_data(results[i])],
   total |-> Len(results),
   page |-> request.page,
   page_size |-> request.page_size,
   has_more |-> HasMore(results, request)]

(***************************************************************************)
(* Queries against a store that does not change (specification SpecQuery): *)
(* the pages of a request are asked for in any order, any number of times, *)
(* each answered by query_history_data                                     *)
(***************************************************************************)
MaxPage == 2
MaxPageSize == 2

\* two keys of different tables, a point id, and a point id with a quote in it
KeyA == <<"a", ":", "1">>
KeyB == <<"b", ":", "1">>
PointP == <<"p">>
PointQ == <<"p", "'">>

\* a stored row: the tags and the time of a sample written by store_batch_data
Row(t, key, point) ==
  [time |-> t, redis_key |-> key, point_id |-> point,
   source |-> create_measurement_name(key), value |-> 1]

\* one series with three instants, the first older than a day; and three series
\* of which two hold a row of the same instant
Stores ==
  { {Row(100, KeyA, PointP), Row(90000, KeyA, PointP), Row(90010, KeyA, PointP)},
    {Row(90010, KeyA, PointP), Row(90010, KeyA, PointQ), Row(90000, KeyB, PointP)} }

NoTime == [present |-> FALSE, t |-> 0]
AtTime(t) == [present |-> TRUE, t |-> t]

\* the time ranges asked about: the default one, and one that holds every row
Ranges == {[start_time |-> NoTime, end_time |-> NoTime],
           [start_time |-> AtTime(0), end_time |-> AtTime(Now)]}

\* the QueryRequest objects asked about, but for their page
Requests ==
  [range : Ranges,
   redis_keys : {Absent, Given(<<KeyA>>), Given(<<KeyA, KeyB>>)},
   point_ids : {Absent, Given(<<>>), Given(<<PointP>>), Given(<<PointP, PointQ>>)},
   sources : {Absent, Given(<<<<"a">>>>)},
   interval : {1, 600},
   page_size : 1..MaxPageSize]

WithPage(request, p) ==
  [start_time |-> request.range.start_time, end_time |-> request.range.end_time,
   redis_keys |-> request.redis_keys, point_ids |-> request.point_ids,
   sources |-> request.sources, interval |-> request.interval,
   page |-> p, page_size |-> request.page_size]

\* no response yet for a page
NotAsked ==
  [asked |-> FALSE, failed |-> FALSE, where |-> <<>>,
   response |-> ErrorResponse([page |-> 0, page_size |-> 0])]

InitQuery ==
  /\ InitSched(BufferConfigs)
  /\ sb = NoCall
  /\ qs \in {[phase |-> "query", store |-> st, request |-> r,
              resp |-> [p \in 1..MaxPage |-> NotAsked]]
               : st \in Stores, r \in Requests}

\* one call of query_history_data for page p of the request: it compiles the
\* statement, has query_data execute it and builds the response
QueryPage ==
  /\ qs.phase = "query"
  /\ \E p \in 1..MaxPage, api \in ApiStates, order \in Orders(qs.store) :
       LET request == WithPage(qs.request, p)
           answer == query_data(QueryText(request), api, qs.store, order)
       IN qs' = [qs EXCEPT !.resp[p] =
                   [asked |-> TRUE,
                    where |-> WhereClause(request),
                    failed |-> answer.failed,
                    response |-> query_history_data(request, answer.records)]]
  /\ UNCHANGED <<schedVars, sb>>

NextQuery == QueryPage

SpecQuery == InitQuery /\ [][NextQuery]_vars

(***************************************************************************)
(* Claims on query_history_data (specification SpecQuery)                  *)
(***************************************************************************)
\* the pages of the request that have been answered by a store that executed
\* the query
Answered == {p \in 1..MaxPage : qs.resp[p].asked /\ ~qs.resp[p].failed}

\* get_data_collection_interval(): scheduler.data_collection.interval, in seconds
CollectionInterval == 5

\* the window of length interval that holds the instant t
WindowOf(t, interval) == t \div interval

\* the samples of the rows of the store, as a query returns them
StoredSamples == {_convert_record_to_history_data(r) : r \in qs.store}

\* C14: the downsampling decision.  A query whose interval is at most the
\* collection interval returns stored samples unmodified; a query whose interval
\* is larger returns one point per series and window, so no two returned samples
\* of one series fall in the same window of that length.
C14_Downsampling ==
  \A p \in Answered :
    LET data == qs.resp[p].response.data
    IN IF qs.request.interval <= CollectionInterval
       THEN Range(data) \subseteq StoredSamples
       ELSE \A i, j \in 1..Len(data) :
              (/\ i # j
               /\ data[i].redis_key = data[j].redis_key
               /\ data[i].point_id = data[j].point_id)
                => WindowOf(data[i].timestamp, qs.request.interval)
                     # WindowOf(data[j].timestamp, qs.request.interval)

\* the pages of the request whose call returned status "success"
Succeeded == {p \in 1..MaxPage : qs.resp[p].asked /\ qs.resp[p].response.status = "success"}

\* C15: page metadata is derived only from the returned page.  For every
\* successful result of query_history_data, total is the number of samples in
\* the returned page, and has_more is true iff that number equals page_size.
C15_PageMetadata ==
  \A p \in Succeeded :
    LET r == qs.resp[p].response
    IN /\ r.total = Len(r.data)
       /\ r.has_more <=> (Len(r.data) = r.page_size)
       /\ r.page_size = qs.request.page_size
       /\ r.page = p

\* a full page that reports a successor, and a short non-empty page that
\* reports none, of the same request
C15_Witness ==
  \E p, q \in Succeeded :
    /\ qs.resp[p].response.total = qs.request.page_size
    /\ qs.resp[p].response.has_more
    /\ qs.resp[q].response.total > 0
    /\ qs.resp[q].response.total < qs.request.page_size
    /\ ~qs.resp[q].response.has_more

(***************************************************************************)
(* The rows a request asks for, as the request's fields state it           *)
(***************************************************************************)
\* a filter that is None or empty admits every value; one that holds values
\* admits its members
Admits(opt, v) == ~Truthy(opt) \/ v \in Range(opt.items)

\* the row lies in the time range of the request and passes its three filters
Matches(row, request) ==
  /\ StartTime(request) <= row.time
  /\ row.time <= EndTime(request)
  /\ Admits(request.redis_keys, row.redis_key)
  /\ Admits(request.point_ids, row.point_id)
  /\ Admits(request.sources, row.source)

\* the rows of the store that the request of this run asks for
Matching == {r \in qs.store : Matches(r, WithPage(qs.request, 1))}

\* the samples of a sequence of rows
SamplesOf(rows) == [i \in 1..Len(rows) |-> _convert_record_to_history_data(rows[i])]

\* C16: pagination.  Over an unchanged store there is one descending order of
\* the matching rows such that every answered page p is the slice
\* [(p-1)*page_size, p*page_size) of it; so the pages are pairwise disjoint and
\* their concatenation in page order is the full descending result.
C16_Pagination ==
  Answered # {} =>
    \E o \in Orders(Matching) :
      \A p \in Answered :
        qs.resp[p].response.data
          = SamplesOf(Page(o, qs.request.page_size, (p - 1) * qs.request.page_size))

\* the predicate the store reads in a compiled where clause: the clause has to
\* be a whole WHERE condition, and the row has to satisfy it
SatisfiesClause(row, clause) ==
  LET t == Tokens(clause)
      w == IF t.ok THEN ParseWhere(t.toks, 1) ELSE NoWhere
  IN /\ w.ok
     /\ w.next = Len(t.toks) + 1
     /\ Satisfies(row, w)

\* the pages of the request that query_history_data was called for
Asked == {p \in 1..MaxPage : qs.resp[p].asked}

\* C17: filter semantics.  A stored row satisfies the where clause compiled for
\* a request iff it lies in the request's time range and, for each of
\* redis_keys, point_ids and sources that is present and non-empty, the row's
\* field equals a member of it; an absent or empty filter imposes no constraint.
C17_FilterSemantics ==
  \A p \in Asked :
    \A row \in qs.store :
      SatisfiesClause(row, qs.resp[p].where) <=> Matches(row, WithPage(qs.request, p))

\* C18: backend query errors surface as error results.  Whenever the store
\* failed while executing the query of query_history_data, the response has
\* status "error", no samples, total 0 and has_more false; a backend failure is
\* never reported with status "success".
C18_BackendErrorsSurface ==
  \A p \in Asked :
    qs.resp[p].failed =>
      /\ qs.resp[p].response.status = "error"
      /\ qs.resp[p].response.data = <<>>
      /\ qs.resp[p].response.total = 0
      /\ ~qs.resp[p].response.has_more

(***************************************************************************)
(* The statistics route, GET /data/statistics (specification SpecStats)    *)
(***************************************************************************)
\* a time parameter of the route: text that parse_datetime can read as the
\* instant t, or text that it cannot read
BadTime == [ok |-> FALSE, t |-> 0]
GoodTime(t) == [ok |-> TRUE, t |-> t]
TimeParams == {BadTime, GoodTime(0), GoodTime(3600), GoodTime(7200)}

valid_aggregations == {"mean", "sum", "min", "max", "count"}
valid_intervals == {"1m", "5m", "15m", "30m", "1h", "2h", "6h", "12h", "1d"}

\* the query parameters asked about
StatisticsParams ==
  [start_time : TimeParams, end_time : TimeParams,
   aggregation : valid_aggregations \cup {"median"},
   interval : {"1m", "1h", "1d", "7x"}]

\* the methods that class QueryService defines
QueryServiceMethods ==
  {"__init__", "_get_measurement_from_redis_key", "_build_time_filter",
   "_build_filters", "_parse_interval_to_seconds", "query_history_data",
   "_convert_record_to_history_data", "get_latest_data", "get_data_range_info",
   "test_connection"}

\* query_service.<name>(...): an attribute the object does not have raises
\* AttributeError
CallQueryService(name) ==
  IF name \in QueryServiceMethods THEN "returned" ELSE "AttributeError"

\* the route query_statistics: the HTTP status it answers with and the data of
\* the body.  No method of QueryService computes statistics data.
query_statistics_route(params) ==
  IF ~params.start_time.ok \/ ~params.end_time.ok
    THEN [http |-> 400, data |-> <<>>]
  ELSE IF params.end_time.t <= params.start_time.t
    THEN [http |-> 400, data |-> <<>>]
  ELSE IF params.aggregation \notin valid_aggregations
    THEN [http |-> 400, data |-> <<>>]
  ELSE IF params.interval \notin valid_intervals
    THEN [http |-> 400, data |-> <<>>]
  ELSE IF CallQueryService("query_statistics") = "AttributeError"
    THEN [http |-> 500, data |-> <<>>]
  ELSE [http |-> 200, data |-> <<>>]

NoAnswer == [asked |-> FALSE, http |-> 0, data |-> <<>>]

InitStatistics ==
  /\ InitSched(BufferConfigs)
  /\ sb = NoCall
  /\ qs \in {[phase |-> "stats", params |-> ps, answer |-> NoAnswer]
               : ps \in StatisticsParams}

\* one request to the route
StatisticsRequest ==
  /\ qs.phase = "stats"
  /\ LET r == query_statistics_route(qs.params)
     IN qs' = [qs EXCEPT !.answer = [asked |-> TRUE, http |-> r.http, data |-> r.data]]
  /\ UNCHANGED <<schedVars, sb>>

NextStatistics == StatisticsRequest

SpecStats == InitStatistics /\ [][NextStatistics]_vars

\* the parameters are those of a statistics request the route documents as
\* valid: two readable instants in order, a known aggregation and interval
ValidStatistics(params) ==
  /\ params.start_time.ok /\ params.end_time.ok
  /\ params.start_time.t < params.end_time.t
  /\ params.aggregation \in valid_aggregations
  /\ params.interval \in valid_intervals

\* C19: the statistics query path.  A statistics request with one redis_key,
\* one point_id, a valid aggregation and a valid interval completes (HTTP 200)
\* with {timestamp, value} pairs, one per window, sorted ascending by time.
C19_StatisticsPath ==
  (qs.phase = "stats" /\ qs.answer.asked /\ ValidStatistics(qs.params)) =>
    /\ qs.answer.http = 200
    /\ \A i, j \in 1..Len(qs.answer.data) :
         i < j => qs.answer.data[i].timestamp < qs.answer.data[j].timestamp

(***************************************************************************)
(* DataCollector._convert_value (specification SpecConvert).  A Python     *)
(* value is a record [type, s, n, e, b]: a str holds its characters s, an  *)
(* int its number n, a float the number n * 10^e (n not a multiple of 10   *)
(* unless it is 0; the rounding to binary is left out) or the word s of    *)
(* inf/nan, a bool its truth value b.                                      *)
(***************************************************************************)
PyStr(s) == [type |-> "str", s |-> s, n |-> 0, e |-> 0, b |-> FALSE]
PyInt(n) == [type |-> "int", s |-> <<>>, n |-> n, e |-> 0, b |-> FALSE]
PyBool(b) == [type |-> "bool", s |-> <<>>, n |-> 0, e |-> 0, b |-> b]
PyNone == [type |-> "NoneType", s |-> <<>>, n |-> 0, e |-> 0, b |-> FALSE]

\* the float n * 10^e, with the trailing zeros of n moved into e
RECURSIVE PyFloat(_, _)
PyFloat(n, e) ==
  IF n = 0 THEN [type |-> "float", s |-> <<>>, n |-> 0, e |-> 0, b |-> FALSE]
  ELSE IF n % 10 = 0 THEN PyFloat(n \div 10, e + 1)
  ELSE [type |-> "float", s |-> <<>>, n |-> n, e |-> e, b |-> FALSE]

\* the floats inf, -inf and nan
PyFloatWord(word) == [type |-> "float", s |-> word, n |-> 0, e |-> 0, b |-> FALSE]

UpperLetters == <<"A", "B", "C", "D", "E", "F", "G", "H", "I", "J", "K", "L", "M",
                  "N", "O", "P", "Q", "R", "S", "T", "U", "V", "W", "X", "Y", "Z">>
LowerLetters == <<"a", "b", "c", "d", "e", "f", "g", "h", "i", "j", "k", "l", "m",
                  "n", "o", "p", "q", "r", "s", "t", "u", "v", "w", "x", "y", "z">>
DigitChars == <<"0", "1", "2", "3", "4", "5", "6", "7", "8", "9">>
Whitespace == {" ", "\t", "\n", "\r"}

\* the position of c in the sequence q, 0 if it is not there
PositionIn(q, c) ==
  IF c \in Range(q) THEN CHOOSE i \in 1..Len(q) : q[i] = c ELSE 0

\* str.lower()
lower(s) ==
  [i \in 1..Len(s) |->
     IF s[i] \in Range(UpperLetters) THEN LowerLetters[PositionIn(UpperLetters, s[i])]
     ELSE s[i]]

\* str.strip(), which int() and float() apply to their argument
RECURSIVE StripLeft(_)
StripLeft(s) ==
  IF s # <<>> /\ Head(s) \in Whitespace THEN StripLeft(Tail(s)) ELSE s
RECURSIVE StripRight(_)
StripRight(s) ==
  IF s # <<>> /\ s[Len(s)] \in Whitespace THEN StripRight(SubSeq(s, 1, Len(s) - 1))
  ELSE s
Strip(s) == StripRight(StripLeft(s))

\* the parts of s before and after the first character of the set cs
FirstOf(s, cs) ==
  IF \E i \in 1..Len(s) : s[i] \in cs
  THEN CHOOSE i \in 1..Len(s) : s[i] \in cs /\ \A j \in 1..(i - 1) : s[j] \notin cs
  ELSE 0
Before(s, cs) == IF FirstOf(s, cs) = 0 THEN s ELSE SubSeq(s, 1, FirstOf(s, cs) - 1)
After(s, cs) == IF FirstOf(s, cs) = 0 THEN <<>> ELSE SubSeq(s, FirstOf(s, cs) + 1, Len(s))

\* digits, with single underscores between them
IsDigits(s) ==
  /\ s # <<>>
  /\ \A i \in 1..Len(s) : s[i] \in Range(DigitChars) \cup {"_"}
  /\ s[1] # "_" /\ s[Len(s)] # "_"
  /\ \A i \in 1..(Len(s) - 1) : ~(s[i] = "_" /\ s[i + 1] = "_")

\* the digits of s, without the underscores
OnlyDigits(s) == SelectSeq(s, LAMBDA c : c # "_")

\* the number that a sequence of digits writes
RECURSIVE DigitsValue(_)
DigitsValue(s) ==
  IF s = <<>> THEN 0
  ELSE 10 * DigitsValue(SubSeq(s, 1, Len(s) - 1)) + (PositionIn(DigitChars, s[Len(s)]) - 1)

\* a leading sign, and what follows it
SignOf(s) == IF s # <<>> /\ Head(s) = "-" THEN -1 ELSE 1
Unsigned(s) == IF s # <<>> /\ Head(s) \in {"+", "-"} THEN Tail(s) ELSE s

Raised == [raised |-> TRUE, value |-> PyNone]
Returned(v) == [raised |-> FALSE, value |-> v]

\* int(value) of a str: optional whitespace around an optional sign and digits;
\* ValueError otherwise
int(value) ==
  LET body == Unsigned(Strip(value))
  IN IF IsDigits(body)
     THEN Returned(PyInt(SignOf(Strip(value)) * DigitsValue(OnlyDigits(body))))
     ELSE Raised

\* float(value) of a str: optional whitespace around an optional sign and
\* either inf, infinity or nan in any case, or digits with an optional point and
\* an optional exponent; ValueError otherwise
float(value) ==
  LET body == Unsigned(Strip(value))
      sign == SignOf(Strip(value))
      mantissa == Before(body, {"e", "E"})
      hasExp == FirstOf(body, {"e", "E"}) # 0
      exponent == After(body, {"e", "E"})
      whole == Before(mantissa, {"."})
      hasPoint == FirstOf(mantissa, {"."}) # 0
      fraction == After(mantissa, {"."})
      mantissaOk ==
        IF hasPoint
        THEN /\ whole = <<>> \/ IsDigits(whole)
             /\ fraction = <<>> \/ IsDigits(fraction)
             /\ whole # <<>> \/ fraction # <<>>
        ELSE IsDigits(whole)
      exponentOk == ~hasExp \/ IsDigits(Unsigned(exponent))
      exp10 == IF hasExp
               THEN SignOf(exponent) * DigitsValue(OnlyDigits(Unsigned(exponent)))
               ELSE 0
      digits == OnlyDigits(whole) \o OnlyDigits(fraction)
  IN IF lower(body) \in {<<"i", "n", "f">>, <<"i", "n", "f", "i", "n", "i", "t", "y">>}
       THEN Returned(PyFloatWord(IF sign = -1 THEN <<"-", "i", "n", "f">>
                                 ELSE <<"i", "n", "f">>))
     ELSE IF lower(body) = <<"n", "a", "n">>
       THEN Returned(PyFloatWord(<<"n", "a", "n">>))
     ELSE IF mantissaOk /\ exponentOk
       THEN Returned(PyFloat(sign * DigitsValue(digits),
                             exp10 - Len(OnlyDigits(fraction))))
     ELSE Raised

True == <<"t", "r", "u", "e">>
False == <<"f", "a", "l", "s", "e">>

\* mutant of ParsedNumber: every string is tried as a float
ParsedNumberAlwaysFloat(value) == float(value)

\* the try block of _convert_value: float(value) if '.' in value else int(value)
ParsedNumber(value) ==
  IF "." \in Range(value) THEN float(value) ELSE int(value)

\* DataCollector._convert_value
_convert_value(value) ==
  IF value.type = "str"
  THEN IF ~ParsedNumber(value.s).raised
       THEN ParsedNumber(value.s).value
       ELSE IF lower(value.s) \in {True, False}
            THEN PyBool(lower(value.s) = True)
            ELSE value
  ELSE value

MaxStr == 3

\* the characters that the strings asked about are made of
Chars == {"5", "0", ".", "-", " ", "e", "_", "a"}

RECURSIVE StringsOf(_)
StringsOf(n) ==
  IF n = 0 THEN {<<>>}
  ELSE StringsOf(n - 1)
         \cup {Append(s, c) : s \in {t \in StringsOf(n - 1) : Len(t) = n - 1}, c \in Chars}

\* the raw values asked about: every string of at most MaxStr characters, the
\* words of the booleans and their neighbours, and values that are no strings
RawValues ==
  {PyStr(s) : s \in StringsOf(MaxStr)}
    \cup {PyStr(s) : s \in {True, False, <<"T", "R", "U", "E">>, <<"F", "a", "l", "s", "e">>,
                            <<"T", "r", "u", "e">>, <<"t", "r", "u", "e", ".">>,
                            <<" ", "t", "r", "u", "e">>, <<"t", "r", "u">>,
                            <<"5", "a", "b", "c">>, <<"1", ".", "5", "e", "-", "2">>,
                            <<"i", "n", "f">>, <<"n", "a", "n">>, <<"+", "5">>,
                            <<"1", "2", "3", "4", "5">>, <<"1", ".", "5", ".", "2">>}}
    \cup {PyInt(5), PyInt(0), PyBool(TRUE), PyBool(FALSE), PyNone, PyFloat(15, -1),
          PyFloatWord(<<"n", "a", "n">>)}

NotConverted == [done |-> FALSE, result |-> PyNone]

InitConvert ==
  /\ InitSched(BufferConfigs)
  /\ sb = NoCall
  /\ qs \in {[phase |-> "convert", value |-> v, call |-> NotConverted] : v \in RawValues}

\* one call of _convert_value
ConvertValue ==
  /\ qs.phase = "convert"
  /\ qs' = [qs EXCEPT !.call = [done |-> TRUE, result |-> _convert_value(qs.value)]]
  /\ UNCHANGED <<schedVars, sb>>

NextConvert == ConvertValue

SpecConvert == InitConvert /\ [][NextConvert]_vars

\* C20: value coercion is total and follows the stated precedence.  For a raw
\* string s: if s contains '.' and parses as a float the result is that float;
\* otherwise if s parses as an integer the result is that integer; otherwise if
\* s equals "true" or "false" ignoring case the result is the boolean;
\* otherwise the result is s unchanged.  A non-string is returned unchanged.
C20_ValueCoercion ==
  (qs.phase = "convert" /\ qs.call.done) =>
    LET v == qs.value
        r == qs.call.result
    IN IF v.type # "str" THEN r = v
       ELSE IF "." \in Range(v.s) /\ ~float(v.s).raised THEN r = float(v.s).value
       ELSE IF ~int(v.s).raised THEN r = int(v.s).value
       ELSE IF lower(v.s) \in {True, False} THEN r = PyBool(lower(v.s) = True)
       ELSE r = v

\* a string with a point that is a float's text has been converted to that
\* float, though its digits before the point are an integer's text
C20_Witness ==
  /\ qs.phase = "convert"
  /\ qs.call.done
  /\ qs.value = PyStr(<<"5", ".", "0">>)
  /\ qs.call.result = PyFloat(5, 0)

(***************************************************************************)
(* data_collector.py: the scan of Redis (specification SpecCollect).  A    *)
(* key, a field name and a pattern are sequences of characters; a hash is  *)
(* the sequence of its <<field, value>> pairs, each field once; a naive    *)
(* datetime is the number of seconds its wall-clock reading is after       *)
(* 1970-01-01T00:00:00, fractions of a second left out.                    *)
(***************************************************************************)
\* key.split(':')[0], the source of parse_redis_key
RECURSIVE parse_redis_key(_)
parse_redis_key(key) ==
  IF key = <<>> \/ Head(key) = ":" THEN <<>>
  ELSE <<Head(key)>> \o parse_redis_key(Tail(key))

\* the KEYS command of Redis: the whole key matches the glob pattern
RECURSIVE GlobMatches(_, _)
GlobMatches(pattern, key) ==
  IF pattern = <<>> THEN key = <<>>
  ELSE IF Head(pattern) = "*"
    THEN \E i \in 0..Len(key) : GlobMatches(Tail(pattern), SubSeq(key, i + 1, Len(key)))
  ELSE /\ key # <<>>
       /\ Head(key) = Head(pattern)
       /\ GlobMatches(Tail(pattern), Tail(key))

\* pattern.replace('*', '.*')
RECURSIVE ReplaceStar(_)
ReplaceStar(pattern) ==
  IF pattern = <<>> THEN <<>>
  ELSE (IF Head(pattern) = "*" THEN <<".", "*">> ELSE <<Head(pattern)>>)
         \o ReplaceStar(Tail(pattern))

\* re.match(regex, key) is not None, for a regex of characters, '.' and '.*':
\* the regex matches some prefix of the key
RECURSIVE re_match(_, _)
re_match(regex, key) ==
  IF regex = <<>> THEN TRUE
  ELSE IF Len(regex) >= 2 /\ regex[2] = "*"
    THEN \E i \in 0..Len(key) :
           /\ \A j \in 1..i : regex[1] = "." \/ key[j] = regex[1]
           /\ re_match(SubSeq(regex, 3, Len(regex)), SubSeq(key, i + 1, Len(key)))
  ELSE /\ key # <<>>
       /\ regex[1] = "." \/ Head(key) = regex[1]
       /\ re_match(Tail(regex), Tail(key))

\* DataCollector.should_exclude_key
should_exclude_key(key, exclude_patterns) ==
  \E i \in 1..Len(exclude_patterns) : re_match(ReplaceStar(exclude_patterns[i]), key)

\* hash_data.pop(field, None): the value, PyNone if the field is not there
Pop(hash_data, field) ==
  IF \E i \in 1..Len(hash_data) : hash_data[i][1] = field
  THEN hash_data[CHOOSE i \in 1..Len(hash_data) : hash_data[i][1] = field][2]
  ELSE PyNone
Without(hash_data, field) == SelectSeq(hash_data, LAMBDA fv : fv[1] # field)

\* the truth value of what pop returns: neither None nor the empty string
NonEmpty(v) == v.type = "str" /\ v.s # <<>>

TimestampField == <<"_", "t", "i", "m", "e", "s", "t", "a", "m", "p">>
UpdatedField == <<"_", "_", "u", "p", "d", "a", "t", "e", "d">>

RECURSIVE Pow10(_)
Pow10(e) == IF e = 0 THEN 1 ELSE 10 * Pow10(e - 1)

\* the whole seconds of a finite float
SecondsOf(f) == IF f.e >= 0 THEN f.n * Pow10(f.e) ELSE f.n \div Pow10(-f.e)

\* datetime.fromtimestamp(f) on a host whose local time is tz seconds ahead of
\* UTC: the naive local reading; nan raises ValueError, inf OverflowError
fromtimestamp(f, tz) ==
  IF f.s = <<"n", "a", "n">> THEN [raised |-> "ValueError", value |-> 0]
  ELSE IF f.s # <<>> THEN [raised |-> "OverflowError", value |-> 0]
  ELSE [raised |-> "no", value |-> SecondsOf(f) + tz]

\* datetime.utcnow(): the naive UTC reading of the instant Now
utcnow == Now

\* lines 79-87: the timestamp of a hash, or the exception that leaves the block
Timestamp(hash_data, tz) ==
  LET first == Pop(hash_data, TimestampField)
      timestamp_str == IF NonEmpty(first) THEN first ELSE Pop(hash_data, UpdatedField)
  IN IF NonEmpty(timestamp_str)
     THEN IF float(timestamp_str.s).raised
          THEN [raised |-> "no", value |-> utcnow]
          ELSE LET t == fromtimestamp(float(timestamp_str.s).value, tz)
               IN IF t.raised = "ValueError" THEN [raised |-> "no", value |-> utcnow]
                  ELSE t
     ELSE [raised |-> "no", value |-> utcnow]

\* field.startswith('_')
IsSystemField(field) == field # <<>> /\ Head(field) = "_"

\* lines 89-101: the data points of the fields that are left in the hash
RECURSIVE FieldPoints(_, _, _)
FieldPoints(key, hash_data, timestamp) ==
  IF hash_data = <<>> THEN <<>>
  ELSE (IF IsSystemField(hash_data[1][1]) THEN <<>>
        ELSE <<[key |-> key, field |-> hash_data[1][1],
                value |-> _convert_value(hash_data[1][2]), timestamp |-> timestamp]>>)
         \o FieldPoints(key, Tail(hash_data), timestamp)

\* a key of the database: its hash, and whether HGETALL on it raises
NoKey == [exists |-> FALSE, fails |-> FALSE, hash |-> <<>>]
Failing == [exists |-> TRUE, fails |-> TRUE, hash |-> <<>>]
Holding(hash) == [exists |-> TRUE, fails |-> FALSE, hash |-> hash]

\* the body of the loop over keys (lines 64-105): what one key adds
KeyPoints(key, entry, exclude_patterns, tz) ==
  IF should_exclude_key(key, exclude_patterns) THEN <<>>
  ELSE IF entry.fails THEN <<>>
  ELSE IF entry.hash = <<>> THEN <<>>
  ELSE LET timestamp == Timestamp(entry.hash, tz)
           rest == IF NonEmpty(Pop(entry.hash, TimestampField))
                   THEN Without(entry.hash, TimestampField)
                   ELSE Without(Without(entry.hash, TimestampField), UpdatedField)
       IN IF timestamp.raised # "no" THEN <<>>
          ELSE FieldPoints(key, rest, timestamp.value)

\* DataCollector.collect_data_from_pattern: db.keys is the sequence of the
\* keys in the order KEYS gives them, db.at their entries, db.down the
\* patterns on which KEYS raises
\* mutant of ScanKeys: a key whose hash cannot be read ends the loop
RECURSIVE ScanKeysStops(_, _, _, _)
ScanKeysStops(keys, db, exclude_patterns, tz) ==
  IF keys = <<>> THEN <<>>
  ELSE IF db.at[Head(keys)].fails /\ ~should_exclude_key(Head(keys), exclude_patterns)
    THEN <<>>
  ELSE KeyPoints(Head(keys), db.at[Head(keys)], exclude_patterns, tz)
         \o ScanKeysStops(Tail(keys), db, exclude_patterns, tz)

RECURSIVE ScanKeys(_, _, _, _)
ScanKeys(keys, db, exclude_patterns, tz) ==
  IF keys = <<>> THEN <<>>
  ELSE KeyPoints(Head(keys), db.at[Head(keys)], exclude_patterns, tz)
         \o ScanKeys(Tail(keys), db, exclude_patterns, tz)

collect_data_from_pattern(pattern, db, exclude_patterns, tz) ==
  IF pattern \in db.down THEN <<>>
  ELSE ScanKeys(SelectSeq(db.keys, LAMBDA k : db.at[k].exists /\ GlobMatches(pattern, k)),
                db, exclude_patterns, tz)

\* RedisDataPoint.to_history_data
to_history_data(data_point) ==
  [timestamp |-> data_point.timestamp, redis_key |-> data_point.key,
   point_id |-> data_point.field, value |-> data_point.value,
   source |-> parse_redis_key(data_point.key)]

\* DataCollector.collect_all_data
RECURSIVE collect_all_data(_, _, _, _)
collect_all_data(subscribe_patterns, db, exclude_patterns, tz) ==
  IF subscribe_patterns = <<>> THEN <<>>
  ELSE LET data_points == collect_data_from_pattern(Head(subscribe_patterns), db,
                                                    exclude_patterns, tz)
       IN [i \in 1..Len(data_points) |-> to_history_data(data_points[i])]
            \o collect_all_data(Tail(subscribe_patterns), db, exclude_patterns, tz)

\* the keys, fields and values of the databases asked about
Dev1 == <<"d", "e", "v", ":", "1">>
Dev10 == <<"d", "e", "v", ":", "1", "0">>
Sys1 == <<"s", "y", "s", ":", "1">>
DevAll == <<"d", "e", "v", ":", "*">>
SysAll == <<"s", "y", "s", ":", "*">>
Dev1All == <<"d", "e", "v", ":", "1", "*">>
TempField == <<"t", "e", "m", "p">>
OnField == <<"o", "n">>
OtherSystemField == <<"_", "x">>
Epoch17 == PyStr(<<"1", "7", "0", "0", "0", "0", "0", "0", "0", "0">>)
Epoch16 == PyStr(<<"1", "6", "0", "0", "0", "0", "0", "0", "0", "0">>)
Value215 == PyStr(<<"2", "1", ".", "5">>)

\* the hashes a key may hold: the timestamp fields present, absent, empty,
\* unreadable and out of range, beside values of each kind
Hashes ==
  { <<<<TempField, Value215>>, <<TimestampField, Epoch17>>>>,
    <<<<TempField, Value215>>, <<TimestampField, PyStr(<<"x">>)>>,
      <<UpdatedField, Epoch17>>>>,
    <<<<TempField, Value215>>, <<UpdatedField, Epoch17>>>>,
    <<<<TimestampField, Epoch17>>, <<UpdatedField, Epoch16>>, <<TempField, PyStr(<<"a">>)>>>>,
    <<<<TimestampField, PyStr(<<>>)>>, <<UpdatedField, Epoch16>>, <<TempField, PyStr(<<"5">>)>>>>,
    <<<<TempField, PyStr(<<"5">>)>>, <<OnField, PyStr(True)>>,
      <<OtherSystemField, PyStr(<<"1">>)>>>>,
    <<<<TempField, Value215>>, <<TimestampField, PyStr(<<"i", "n", "f">>)>>>>,
    <<<<TimestampField, Epoch17>>>> }

\* the hash of the second and of the third key, when they hold one
PlainHash == <<<<TempField, PyStr(<<"5">>)>>, <<OnField, PyStr(True)>>>>
UpdatedHash == <<<<TempField, Value215>>, <<UpdatedField, Epoch17>>>>

Databases ==
  {[keys |-> <<Dev1, Dev10, Sys1>>,
    at |-> [k \in {Dev1, Dev10, Sys1} |->
              IF k = Dev1 THEN a ELSE IF k = Dev10 THEN b ELSE c],
    down |-> d] :
     a \in {NoKey, Failing} \cup {Holding(h) : h \in Hashes},
     b \in {NoKey, Failing, Holding(PlainHash)},
     c \in {NoKey, Failing, Holding(UpdatedHash)},
     d \in {{}, {SysAll}}}

\* the zones of the host: local time minus UTC, in seconds
Zones == {0, 28800, -18000}

NotCollected == [done |-> FALSE, data |-> <<>>, excluded |-> {}]

InitCollect ==
  /\ InitSched(BufferConfigs)
  /\ sb = NoCall
  /\ qs \in {[phase |-> "collect", db |-> db, subscribe_patterns |-> sp,
              exclude_patterns |-> ep, tz |-> tz, call |-> NotCollected] :
               db \in Databases,
               sp \in {<<DevAll>>, <<DevAll, SysAll>>, <<DevAll, Dev1All>>},
               ep \in {<<>>, <<Dev1>>, <<Dev10>>, <<Dev1All>>, <<SysAll, Dev1>>},
               tz \in Zones}

\* the keys that KEYS returns for some subscribe pattern
Returned_keys ==
  {k \in Range(qs.db.keys) :
     /\ qs.db.at[k].exists
     /\ \E i \in 1..Len(qs.subscribe_patterns) :
          /\ qs.subscribe_patterns[i] \notin qs.db.down
          /\ GlobMatches(qs.subscribe_patterns[i], k)}

\* one call of collect_all_data; excluded records the keys that line 66 skips
CollectAll ==
  /\ qs.phase = "collect"
  /\ qs' = [qs EXCEPT !.call =
              [done |-> TRUE,
               data |-> collect_all_data(qs.subscribe_patterns, qs.db,
                                         qs.exclude_patterns, qs.tz),
               excluded |-> {k \in Returned_keys : should_exclude_key(k, qs.exclude_patterns)}]]
  /\ UNCHANGED <<schedVars, sb>>

NextCollect == CollectAll

SpecCollect == InitCollect /\ [][NextCollect]_vars

\* the scan has been made
Collected == qs.phase = "collect" /\ qs.call.done

\* the keys that a scan reads the hash of, and reads it without failure:
\* matched by a subscribe pattern that KEYS answers, not excluded, not failing
ScannedBy(pattern) ==
  {k \in Range(qs.db.keys) :
     /\ pattern \notin qs.db.down
     /\ qs.db.at[k].exists /\ ~qs.db.at[k].fails
     /\ GlobMatches(pattern, k)
     /\ ~should_exclude_key(k, qs.exclude_patterns)}
Scanned == UNION {ScannedBy(qs.subscribe_patterns[i]) : i \in 1..Len(qs.subscribe_patterns)}

\* the samples of a scan that come from the key k
SamplesFrom(k) == SelectSeq(qs.call.data, LAMBDA d : d.redis_key = k)

\* a timestamp field of the hash that is present and parses as a number
Parseable(hash_data, field) ==
  /\ Pop(hash_data, field).type = "str"
  /\ ~float(Pop(hash_data, field).s).raised

\* the instant a parseable timestamp field denotes, as the naive reading that
\* fromtimestamp gives on this host
ReadingOf(hash_data, field) ==
  SecondsOf(float(Pop(hash_data, field).s).value) + qs.tz

\* C21: timestamp resolution order for one scanned hash.  If _timestamp is
\* present and numeric-parseable it is used; otherwise, if __updated is present
\* and numeric-parseable it is used; otherwise the current wall-clock time is
\* used.
C21_TimestampOrder ==
  Collected =>
    \A k \in Scanned :
      LET h == qs.db.at[k].hash
          expected == IF Parseable(h, TimestampField) THEN ReadingOf(h, TimestampField)
                      ELSE IF Parseable(h, UpdatedField) THEN ReadingOf(h, UpdatedField)
                      ELSE utcnow
      IN \A i \in 1..Len(SamplesFrom(k)) : SamplesFrom(k)[i].timestamp = expected

\* how many scans of the tick read the hash of key k
ScansOf(k) ==
  Cardinality({i \in 1..Len(qs.subscribe_patterns) : k \in ScannedBy(qs.subscribe_patterns[i])})

\* the fields of a hash
FieldsOf(hash_data) == {hash_data[i][1] : i \in 1..Len(hash_data)}

\* C22: reserved fields never become samples.  For every scanned hash, no
\* emitted sample has a point_id that begins with '_', and every field that does
\* not begin with '_' yields exactly one sample per scan of that key.
C22_ReservedFields ==
  Collected =>
    /\ \A i \in 1..Len(qs.call.data) :
         ~(qs.call.data[i].point_id # <<>> /\ Head(qs.call.data[i].point_id) = "_")
    /\ \A k \in Scanned :
         \A f \in FieldsOf(qs.db.at[k].hash) :
           (f = <<>> \/ Head(f) # "_") =>
             Len(SelectSeq(SamplesFrom(k), LAMBDA d : d.point_id = f)) = ScansOf(k)

\* C23: key selection uses whole-key glob matching where '*' is the only
\* wildcard.  A key returned for a subscribe pattern is dropped iff the whole
\* key matches at least one exclusion pattern; in particular an exclusion
\* pattern without '*' excludes only the key equal to it.
C23_WholeKeyGlob ==
  Collected =>
    \A k \in Returned_keys :
      k \in qs.call.excluded
        <=> \E j \in 1..Len(qs.exclude_patterns) : GlobMatches(qs.exclude_patterns[j], k)

\* the keys whose hash cannot be read
FailingKeys == {k \in Range(qs.db.keys) : qs.db.at[k].exists /\ qs.db.at[k].fails}

\* the database without the keys whose hash cannot be read
WithoutFailing ==
  [qs.db EXCEPT !.at = [k \in DOMAIN qs.db.at |->
                          IF qs.db.at[k].fails THEN NoKey ELSE qs.db.at[k]]]

\* C24: scan failure isolation.  When reading the hash of a key fails, that key
\* contributes no samples, and every other key of the same pattern and of every
\* other subscribe pattern is still scanned and contributes all its samples in
\* the same tick: the tick collects what it collects without the failing keys.
C24_FailureIsolation ==
  Collected =>
    /\ \A k \in FailingKeys : SamplesFrom(k) = <<>>
    /\ qs.call.data = collect_all_data(qs.subscribe_patterns, WithoutFailing,
                                       qs.exclude_patterns, qs.tz)
    /\ \A k \in Scanned :
         (/\ Timestamp(qs.db.at[k].hash, qs.tz).raised = "no"
          /\ \E f \in FieldsOf(qs.db.at[k].hash) : ~IsSystemField(f))
           => SamplesFrom(k) # <<>>

\* the first key of a pattern fails, and the next key of the same pattern and a
\* key of the other pattern have contributed their samples
C24_Witness ==
  /\ Collected
  /\ Dev1 \in FailingKeys
  /\ Dev1 \in Returned_keys
  /\ Dev1 \notin qs.call.excluded
  /\ SamplesFrom(Dev10) # <<>>
  /\ SamplesFrom(Sys1) # <<>>

(***************************************************************************)
(* data_storage.py: the point of a sample (specification SpecEncode)       *)
(***************************************************************************)
\* float(x) of an int, a bool or a float
FloatOfNumber(v) ==
  IF v.type = "bool" THEN PyFloat(IF v.b THEN 1 ELSE 0, 0)
  ELSE IF v.type = "int" THEN PyFloat(v.n, 0)
  ELSE v

\* isinstance(data.value, (int, float)): bool is a subclass of int
IsIntOrFloat(v) == v.type \in {"int", "float", "bool"}

\* mutant of StringFields: a string that is no number gets no value field
StringFieldsBare(v) ==
  IF float(v.s).raised THEN "string_value" :> v ELSE "value" :> float(v.s).value

\* lines 50-58: the fields of a str value
StringFields(v) ==
  IF float(v.s).raised
  THEN ("string_value" :> v) @@ ("value" :> PyFloat(0, 0))
  ELSE "value" :> float(v.s).value

\* lines 44-62: the fields of the point of a value.  The branch of bool is never
\* taken, the first one takes every bool.
PointFields(v) ==
  IF IsIntOrFloat(v) THEN "value" :> FloatOfNumber(v)
  ELSE IF v.type = "bool"
    THEN ("value" :> PyInt(IF v.b THEN 1 ELSE 0)) @@ ("boolean_value" :> v)
  ELSE IF v.type = "str" THEN StringFields(v)
  ELSE ("string_value" :> PyStr(<<"N", "o", "n", "e">>)) @@ ("value" :> PyFloat(0, 0))

\* lines 64-71: the instant of the point, in seconds after the epoch.  The
\* timestamps of samples are naive; their reading is taken as UTC.
PointTime(timestamp) == timestamp

\* DataStorage.create_point_from_history_data
create_point_from_history_data(data) ==
  [measurement |-> create_measurement_name(data.redis_key),
   tags |-> [redis_key |-> data.redis_key, point_id |-> data.point_id,
             source |-> data.source],
   fields |-> PointFields(data.value),
   time |-> PointTime(data.timestamp)]

\* the row of a point, as SELECT time, redis_key, point_id, source, value
\* returns it
RowOf(point) ==
  [time |-> point.time, redis_key |-> point.tags.redis_key,
   point_id |-> point.tags.point_id, source |-> point.tags.source,
   value |-> point.fields["value"]]

\* the request for one series at one instant
ExactRequest(data) ==
  [start_time |-> AtTime(data.timestamp), end_time |-> AtTime(data.timestamp),
   redis_keys |-> Given(<<data.redis_key>>), point_ids |-> Given(<<data.point_id>>),
   sources |-> Absent, interval |-> 1, page |-> 1, page_size |-> 1]

\* the samples asked about: values of every kind under keys with no, one and
\* two colons
PlainKey == <<"a">>
LongKey == <<"a", ":", "b", ":", "c">>
EncodeValues ==
  {PyInt(5), PyInt(0), PyFloat(215, -1), PyBool(TRUE), PyBool(FALSE),
   PyStr(<<"a", "b", "c">>), PyStr(<<"1", "e", "5">>), PyStr(<<"n", "a", "n">>),
   PyStr(<<>>), PyStr(True), PyNone}
EncodeSamples ==
  {[timestamp |-> t, redis_key |-> k, point_id |-> TempField, value |-> v,
    source |-> parse_redis_key(k)] :
     t \in {Now, 1700000000}, k \in {Dev1, PlainKey, LongKey}, v \in EncodeValues}

NotEncoded == [done |-> FALSE, point |-> create_point_from_history_data(
                 [timestamp |-> 0, redis_key |-> <<>>, point_id |-> <<>>,
                  value |-> PyInt(0), source |-> <<>>])]
NotRead == [done |-> FALSE, data |-> <<>>]

InitEncode ==
  /\ InitSched(BufferConfigs)
  /\ sb = NoCall
  /\ qs \in {[phase |-> "encode", sample |-> d, call |-> NotEncoded, read |-> NotRead] :
               d \in EncodeSamples}

\* one call of create_point_from_history_data
EncodeSample ==
  /\ qs.phase = "encode"
  /\ ~qs.call.done
  /\ qs' = [qs EXCEPT !.call = [done |-> TRUE,
                                point |-> create_point_from_history_data(qs.sample)]]
  /\ UNCHANGED <<schedVars, sb>>

\* the point is written, and query_history_data is asked for its series at its
\* instant
ReadBack ==
  /\ qs.phase = "encode"
  /\ qs.call.done
  /\ ~qs.read.done
  /\ LET request == ExactRequest(qs.sample)
         answer == query_data(QueryText(request), "ok", {RowOf(qs.call.point)},
                              <<RowOf(qs.call.point)>>)
     IN qs' = [qs EXCEPT !.read =
                 [done |-> TRUE,
                  data |-> query_history_data(request, answer.records).data]]
  /\ UNCHANGED <<schedVars, sb>>

NextEncode == EncodeSample \/ ReadBack

SpecEncode == InitEncode /\ [][NextEncode]_vars

\* the sample has been encoded
EncodedSample == qs.phase = "encode" /\ qs.call.done

\* C25: boolean encoding.  For every sample whose value is a boolean b, the
\* encoded point has field value = 1.0 if b else 0.0 and additionally field
\* boolean_value = b.
C25_BooleanEncoding ==
  (EncodedSample /\ qs.sample.value.type = "bool") =>
    LET fields == qs.call.point.fields
    IN /\ "value" \in DOMAIN fields
       /\ fields["value"] = PyFloat(IF qs.sample.value.b THEN 1 ELSE 0, 0)
       /\ "boolean_value" \in DOMAIN fields
       /\ fields["boolean_value"] = qs.sample.value

\* C26: schema uniformity.  Every encoded point carries a numeric field value,
\* whatever the variant of the sample's value; a string that does not parse as
\* a number is encoded with string_value = the string and value = 0.0, and a
\* string that parses as a float with value = that float and no string_value.
C26_SchemaUniformity ==
  EncodedSample =>
    LET v == qs.sample.value
        fields == qs.call.point.fields
    IN /\ "value" \in DOMAIN fields
       /\ fields["value"].type \in {"float", "int"}
       /\ (v.type = "str" /\ float(v.s).raised) =>
            /\ "string_value" \in DOMAIN fields
            /\ fields["string_value"] = v
            /\ fields["value"] = PyFloat(0, 0)
       /\ (v.type = "str" /\ ~float(v.s).raised) =>
            /\ fields["value"] = float(v.s).value
            /\ "string_value" \notin DOMAIN fields

\* the point of the string "abc" carries the string and the value 0.0
C26_Witness ==
  /\ EncodedSample
  /\ qs.sample.value = PyStr(<<"a", "b", "c">>)
  /\ qs.call.point.fields = ("string_value" :> PyStr(<<"a", "b", "c">>)) @@ ("value" :> PyFloat(0, 0))

\* C27: measurement naming is consistent between write and read.  For the key
\* of every encoded sample, the encoder's measurement, the table the query side
\* reads for the key and the sample's source tag are all the part of the key
\* before its first ':' (the whole key when it has none), so the sample is
\* looked up in the table it was written to.
C27_MeasurementNaming ==
  EncodedSample =>
    LET k == qs.sample.redis_key
        prefix == Before(k, {":"})
    IN /\ qs.call.point.measurement = prefix
       /\ _get_measurement_from_redis_key(k) = prefix
       /\ qs.call.point.tags.source = prefix
       /\ Measurement(ExactRequest(qs.sample)) = Text(qs.call.point.measurement)

\* a sample under a:b:c is written to the table a, a sample under a to a
C27_Witness ==
  /\ EncodedSample
  /\ qs.sample.redis_key = LongKey
  /\ qs.call.point.measurement = PlainKey
  /\ qs.call.point.tags.source = PlainKey

\* the sample has been encoded, written and read back
ReadSample == qs.phase = "encode" /\ qs.read.done

\* v == w of Python: int, float and bool compare as numbers (nan equals
\* nothing), strings with strings
PyEq(v, w) ==
  IF v.type \in {"int", "float", "bool"} /\ w.type \in {"int", "float", "bool"}
  THEN FloatOfNumber(v) = FloatOfNumber(w) /\ FloatOfNumber(v) # float(<<"n", "a", "n">>).value
  ELSE v = w

\* C28: round trip.  For every sample with a numeric, boolean or string value,
\* encoding it, storing it, querying by its exact key and point id over a range
\* containing its timestamp and decoding the row yields one sample with the
\* same redis_key, point_id, source and timestamp and an equal value.
C28_RoundTrip ==
  (ReadSample /\ qs.sample.value.type \in {"int", "float", "bool", "str"}) =>
    /\ Len(qs.read.data) = 1
    /\ qs.read.data[1].redis_key = qs.sample.redis_key
    /\ qs.read.data[1].point_id = qs.sample.point_id
    /\ qs.read.data[1].source = qs.sample.source
    /\ qs.read.data[1].timestamp = qs.sample.timestamp
    /\ PyEq(qs.read.data[1].value, qs.sample.value)

\* the scenario: the pattern dev:* is subscribed, nothing is excluded, and
\* dev:1 is the only key, holding {temp: "21.5", _timestamp: "1700000000"}
DevScenario ==
  /\ Collected
  /\ qs.subscribe_patterns = <<DevAll>>
  /\ qs.exclude_patterns = <<>>
  /\ qs.db.at[Dev1] = Holding(<<<<TempField, Value215>>, <<TimestampField, Epoch17>>>>)
  /\ qs.db.at[Dev10] = NoKey
  /\ qs.db.at[Sys1] = NoKey

\* C29: end-to-end collection scenario.  With subscribe pattern dev:* and the
\* single key dev:1 holding {temp: "21.5", _timestamp: "1700000000"}, one
\* collection yields exactly one sample with redis_key dev:1, point_id temp,
\* source dev and value 21.5, whose timestamp, once encoded for storage, is the
\* instant 1700000000 seconds after the epoch in UTC, whatever the zone of the
\* host.
C29_CollectionScenario ==
  DevScenario =>
    /\ Len(qs.call.data) = 1
    /\ qs.call.data[1].redis_key = Dev1
    /\ qs.call.data[1].point_id = TempField
    /\ qs.call.data[1].source = <<"d", "e", "v">>
    /\ qs.call.data[1].value = PyFloat(215, -1)
    /\ create_point_from_history_data(qs.call.data[1]).time = 1700000000

(***************************************************************************)
(* get_storage_stats and get_data_range_info (specification SpecTables)    *)
(* The store is the list of its tables as SHOW TABLES returns them.  A     *)
(* table has a name, a schema, its rows and the kinds of query that fail   *)
(* on it; influxdb_manager.query_data answers a failing query with [].  A  *)
(* timestamp is a positive number of seconds.                              *)
(***************************************************************************)
\* None in the place of a timestamp
NoTimestamp == 0

\* the queries of the two loops
StatsKinds == {"count", "latest", "earliest"}
RangeKinds == StatsKinds \cup {"channels", "types"}

TimesOf(table) == {table.rows[i].time : i \in 1..Len(table.rows)}
MaxOf(S) == CHOOSE x \in S : \A y \in S : y <= x
MinOf(S) == CHOOSE x \in S : \A y \in S : x <= y

\* SELECT COUNT(*) FROM table
CountQuery(table) ==
  IF "count" \in table.fails THEN <<>> ELSE <<Len(table.rows)>>

\* SELECT time FROM table ORDER BY time DESC LIMIT 1
LatestQuery(table) ==
  IF "latest" \in table.fails \/ table.rows = <<>> THEN <<>>
  ELSE <<MaxOf(TimesOf(table))>>

\* SELECT time FROM table ORDER BY time ASC LIMIT 1
EarliestQuery(table) ==
  IF "earliest" \in table.fails \/ table.rows = <<>> THEN <<>>
  ELSE <<MinOf(TimesOf(table))>>

\* the values of a column, each once, in the order of the rows
RECURSIVE Distinct(_)
Distinct(s) ==
  IF s = <<>> THEN <<>>
  ELSE LET rest == Distinct(SubSeq(s, 1, Len(s) - 1))
       IN IF s[Len(s)] \in Range(rest) THEN rest ELSE Append(rest, s[Len(s)])

\* SELECT DISTINCT redis_key FROM table LIMIT 100
ChannelsQuery(table) ==
  IF "channels" \in table.fails THEN <<>>
  ELSE Distinct([i \in 1..Len(table.rows) |-> table.rows[i].redis_key])

\* SELECT DISTINCT source FROM table
TypesQuery(table) ==
  IF "types" \in table.fails THEN <<>>
  ELSE Distinct([i \in 1..Len(table.rows) |-> table.rows[i].source])

\* the measurements of both functions: the tables of schema iox with a name;
\* nothing when SHOW TABLES fails
UserTables(db) ==
  IF db.show_fails THEN <<>>
  ELSE SelectSeq(db.tables, LAMBDA row : row.table_schema = "iox" /\ row.table_name # <<>>)

\* if not x or t > x: x = t
Later(x, t) == IF x = NoTimestamp \/ t > x THEN t ELSE x
Earlier(x, t) == IF x = NoTimestamp \/ t < x THEN t ELSE x

\* list.append(x) unless x is in the list or is empty
RECURSIVE AppendNew(_, _)
AppendNew(list, xs) ==
  IF xs = <<>> THEN list
  ELSE AppendNew(IF Head(xs) = <<>> \/ Head(xs) \in Range(list) THEN list
                 ELSE Append(list, Head(xs)), Tail(xs))

\* data_storage.py 140-147
NoStats ==
  [total_measurements |-> 0, total_points |-> 0, oldest_timestamp |-> NoTimestamp,
   newest_timestamp |-> NoTimestamp, measurements |-> <<>>]

\* data_storage.py 174-214: the body of the loop, for one measurement
StatsOfTable(totals, table) ==
  LET result == CountQuery(table)
      counted == result # <<>> /\ result[1] > 0
      latest_result == LatestQuery(table)
      earliest_result == EarliestQuery(table)
  IN [total_measurements |-> totals.total_measurements + (IF counted THEN 1 ELSE 0),
      total_points |-> totals.total_points + (IF counted THEN result[1] ELSE 0),
      measurements |-> IF counted THEN (table.table_name :> result[1]) @@ totals.measurements
                       ELSE totals.measurements,
      newest_timestamp |-> IF latest_result # <<>>
                           THEN Later(totals.newest_timestamp, latest_result[1])
                           ELSE totals.newest_timestamp,
      oldest_timestamp |-> IF earliest_result # <<>>
                           THEN Earlier(totals.oldest_timestamp, earliest_result[1])
                           ELSE totals.oldest_timestamp]

\* mutant of StatsLoop: a table with a failing query ends the loop
RECURSIVE StatsLoopStops(_, _)
StatsLoopStops(measurements, totals) ==
  IF measurements = <<>> \/ Head(measurements).fails # {} THEN totals
  ELSE StatsLoopStops(Tail(measurements), StatsOfTable(totals, Head(measurements)))

\* data_storage.py 172-219: the loop over the measurements
RECURSIVE StatsLoop(_, _)
StatsLoop(measurements, totals) ==
  IF measurements = <<>> THEN totals
  ELSE StatsLoop(Tail(measurements), StatsOfTable(totals, Head(measurements)))

\* DataStorage.get_storage_stats
get_storage_stats(db) == StatsLoop(UserTables(db), NoStats)

\* query_service.py 223-229
NoInfo ==
  [earliest_timestamp |-> NoTimestamp, latest_timestamp |-> NoTimestamp,
   total_points |-> 0, channels |-> <<>>, data_types |-> <<>>]

\* query_service.py 255-319: the body of the loop, for one measurement
InfoOfTable(info, table) ==
  LET earliest == EarliestQuery(table)
      latest == LatestQuery(table)
      count == CountQuery(table)
  IN [earliest_timestamp |-> IF earliest # <<>>
                             THEN Earlier(info.earliest_timestamp, earliest[1])
                             ELSE info.earliest_timestamp,
      latest_timestamp |-> IF latest # <<>>
                           THEN Later(info.latest_timestamp, latest[1])
                           ELSE info.latest_timestamp,
      total_points |-> info.total_points + (IF count # <<>> THEN count[1] ELSE 0),
      channels |-> AppendNew(info.channels, ChannelsQuery(table)),
      data_types |-> AppendNew(info.data_types, TypesQuery(table))]

\* query_service.py 254-324: the loop over the measurements
RECURSIVE RangeLoop(_, _)
RangeLoop(measurements, info) ==
  IF measurements = <<>> THEN info
  ELSE RangeLoop(Tail(measurements), InfoOfTable(info, Head(measurements)))

\* QueryService.get_data_range_info
get_data_range_info(db) == RangeLoop(UserTables(db), NoInfo)

\* the tables asked about: dev, sys and info, each empty or with rows at times
\* of its own, each with no failing query, with every query failing or with
\* one query failing; info may be a system table
TableNames == <<<<"d", "e", "v">>, <<"s", "y", "s">>, <<"i", "n", "f", "o">>>>
TableTimes ==
  <<{<<>>, <<4>>, <<3, 5>>}, {<<>>, <<2>>, <<6, 1>>}, {<<7>>, <<4, 8>>}>>
FailureModes == {{}, RangeKinds, {"count"}, {"latest"}}
RowsAt(name, times) ==
  [i \in 1..Len(times) |->
     [time |-> times[i], source |-> name,
      redis_key |-> name \o <<":", IF times[i] % 2 = 1 THEN "1" ELSE "2">>]]
TablesOf(i) ==
  {[table_name |-> TableNames[i], table_schema |-> s, rows |-> RowsAt(TableNames[i], ts),
    fails |-> f] :
     s \in (IF i = 3 THEN {"iox", "system"} ELSE {"iox"}),
     ts \in TableTimes[i], f \in FailureModes}
TableStores ==
  {[tables |-> <<a, b, c>>, show_fails |-> d] :
     a \in TablesOf(1), b \in TablesOf(2), c \in TablesOf(3), d \in BOOLEAN}

InitTables ==
  /\ InitSched(BufferConfigs)
  /\ sb = NoCall
  /\ qs \in {[phase |-> "tables", db |-> db,
              stats |-> [done |-> FALSE, value |-> NoStats],
              info |-> [done |-> FALSE, value |-> NoInfo]] : db \in TableStores}

\* one call of get_storage_stats
GetStorageStats ==
  /\ qs.phase = "tables"
  /\ ~qs.stats.done
  /\ qs' = [qs EXCEPT !.stats = [done |-> TRUE, value |-> get_storage_stats(qs.db)]]
  /\ UNCHANGED <<schedVars, sb>>

\* one call of get_data_range_info
GetDataRangeInfo ==
  /\ qs.phase = "tables"
  /\ ~qs.info.done
  /\ qs' = [qs EXCEPT !.info = [done |-> TRUE, value |-> get_data_range_info(qs.db)]]
  /\ UNCHANGED <<schedVars, sb>>

NextTables == GetStorageStats \/ GetDataRangeInfo

SpecTables == InitTables /\ [][NextTables]_vars

\* the user tables whose queries all fail, and those with no failing query
FailedTables == {i \in 1..3 : qs.db.tables[i].table_schema = "iox" /\ qs.db.tables[i].fails = RangeKinds}
SoundTables == {i \in 1..3 : qs.db.tables[i].table_schema = "iox" /\ qs.db.tables[i].fails = {}}

\* SHOW TABLES answers, and every user table fails as a whole or not at all
WholeFailures ==
  /\ qs.phase = "tables"
  /\ ~qs.db.show_fails
  /\ \A i \in 1..3 : qs.db.tables[i].table_schema = "iox" => i \in FailedTables \cup SoundTables

RECURSIVE SumOfRows(_)
SumOfRows(S) ==
  IF S = {} THEN 0
  ELSE LET i == CHOOSE i \in S : TRUE
       IN Len(qs.db.tables[i].rows) + SumOfRows(S \ {i})
SoundTimes == UNION {TimesOf(qs.db.tables[i]) : i \in SoundTables}
SoundEarliest == IF SoundTimes = {} THEN NoTimestamp ELSE MinOf(SoundTimes)
SoundLatest == IF SoundTimes = {} THEN NoTimestamp ELSE MaxOf(SoundTimes)

\* the totals take in every table with no failing query, wherever it stands in
\* the list and whichever queries fail on the others
Covers(total, earliest, latest) ==
  /\ total >= SumOfRows(SoundTables)
  /\ SoundTimes # {} =>
       /\ earliest # NoTimestamp /\ earliest <= SoundEarliest
       /\ latest >= SoundLatest

CollectReturns(t) ==
  /\ thr[t].pc \in CollectPcs
  /\ thr'[t].pc = "tick"
  /\ thr'[t].last \in {"collect_none", "collect_done"}

\* the step in which the flush task of thread t returns after its write
FlushReturns(t) ==
  /\ thr[t].pc \in FlushPcs
  /\ thr'[t].pc = "tick"
  /\ thr'[t].last = "flush_done"

\* C31: statistics are refreshed on every tick.  When a collect tick returns
\* without exception, last_collection_time is set, last_collection_count is the
\* number of samples the tick scanned (0 included) and total_collections has
\* grown by one; when a flush tick returns, last_flush_time is set and
\* last_flush_count is the size of its batch.
C31_StatsRefreshed ==
  [][\A t \in Threads :
       /\ CollectReturns(t) =>
            /\ stats'.last_collection_time = "set"
            /\ stats'.last_collection_count = Len(thr[t].data)
            /\ stats'.total_collections = stats.total_collections + 1
       /\ FlushReturns(t) =>
            /\ stats'.last_flush_time = "set"
            /\ stats'.last_flush_count = Len(thr[t].data)]_vars

\* C32: batch accounting is exact.  For every input list, every set of samples
\* whose encoding fails and every outcome of the batched write, the result of
\* store_batch_data has total = the length of the input and success + failed =
\* total.
C32_BatchAccounting ==
  sb.phase = "done" =>
    /\ sb.result.total = Len(sb.data_list)
    /\ sb.result.success + sb.result.failed = sb.result.total

(***************************************************************************)
(* The tick loops and the registered tasks over start() and stop()         *)
(* (specification SpecSched)                                               *)
(***************************************************************************)
\* the threads inside the while loop of _run_scheduler
LiveLoops == {t \in Threads : thr[t].pc \in LivePcs}

\* C33: at most one tick loop is ever live.  Over every sequence of start() and
\* stop(), a start() after a stop() whose join timed out included, only the
\* thread of the last start() begins a tick (a loop that was signalled to stop
\* does not tick again), and no two threads are inside the loop of
\* _run_scheduler at once.
C33_OneTickLoop ==
  /\ [](Cardinality(LiveLoops) <= 1)
  /\ [][\A t \in Threads :
          (thr[t].pc = "loop" /\ thr'[t].pc = "tick") => t = scheduler_thread]_vars

(***************************************************************************)
(* Shutdown with collect and flush due in one tick (specification SpecDue)  *)
(***************************************************************************)
\* the number of jobs that may be due in one tick
DueInTick == 2

DueBounds == [errors |-> ErrCap, samples |-> SchedSamples, batch |-> MaxBatch,
              due |-> DueInTick, starts |-> 1]

NextDue == Control(DueBounds) \/ \E t \in Threads : BufferStep(t, DueBounds)

SpecDue == Init /\ [][NextDue]_vars

\* stop() has returned and start() has not been called since
StoppedIdle == ~is_running /\ main_pc = "idle"

\* the step in which run_pending calls a job in thread t, after another job of
\* the same tick has returned
NextJobBegins(t) ==
  /\ thr[t].pc = "tick"
  /\ thr[t].last # "none"
  /\ thr'[t].pc \in TaskPcs

\* C34: no task starts after shutdown.  Once stop() has returned, and until the
\* next start(), no scheduled task begins: the jobs that were due in the tick in
\* flight when stop() was called are not started after stop() has returned.
C34_NoTaskAfterStop ==
  [][\A t \in Threads : (StoppedIdle /\ NextJobBegins(t)) => FALSE]_vars

(***************************************************************************)
(* The hand-over of samples to the writer (specification SpecHandover):    *)
(* the pipeline of Spec in which a thread that can take a step takes one   *)
(* and a thread waiting for buffer_lock gets it when it is released again  *)
(* and again                                                               *)
(***************************************************************************)
SpecHandover ==
  /\ Init
  /\ [][Next]_vars
  /\ \A t \in Threads : WF_vars(BufferStep(t, BufferBounds))
  /\ \A t \in Threads : SF_vars(FlushAcquire(t))

\* the samples handed to store_batch_data, call after call
HandedOver == Flatten(store_calls)

\* run_pending calls the flush job in some thread
FlushFires ==
  \E t \in Threads : thr[t].pc = "tick" /\ thr'[t].pc = "f_lock"

\* C35: each appended sample is handed to the writer exactly once.  When flush
\* ticks keep firing, every sample appended to the buffer comes to be in the
\* argument of a store_batch_data call; no sample is in two such arguments or
\* twice in one, and a sample that was handed over is not in the buffer again,
\* whether its write succeeded or failed.
C35_HandedOverOnce ==
  /\ [](\A s \in Samples :
          /\ Count(HandedOver, s) <= 1
          /\ s \in Range(HandedOver) => s \in Range(appended) /\ s \notin Range(data_buffer))
  /\ []<><<FlushFires>>_vars =>
       \A s \in Samples : (s \in Range(appended)) ~> (s \in Range(HandedOver))

\* two batches have been handed over, the write of one of them failed, and
\* every appended sample is in one of them
C35_Witness ==
  /\ Len(store_calls) = 2
  /\ Len(appended) = MaxSamples
  /\ Range(HandedOver) = Range(appended)
  /\ \E t \in Threads : thr[t].pc = "f_stats" /\ thr[t].res.failed > 0

\* C36: one sample per field per key per collection.  For every list of
\* subscribe patterns, two patterns that match the same key included, the list
\* collect_all_data returns holds at most one sample for each pair of redis_key
\* and point_id, so no two of its samples agree in redis_key, point_id and
\* timestamp.
C36_OneSamplePerField ==
  Collected =>
    \A i, j \in 1..Len(qs.call.data) :
      (/\ qs.call.data[i].redis_key = qs.call.data[j].redis_key
       /\ qs.call.data[i].point_id = qs.call.data[j].point_id) => i = j

\* C37: a query with several keys returns matches for all of them.  For a
\* request whose redis_keys hold keys of different first segments, every stored
\* row in the time range whose redis_key is one of them and that passes the
\* other filters is eligible for the result, not only the rows of the table of
\* the first key: when the matching rows fit on one page, the first page holds
\* them all.
C37_AllKeysQueried ==
  (/\ qs.phase = "query"
   /\ Truthy(qs.request.redis_keys)
   /\ 1 \in Answered
   /\ Cardinality(Matching) <= qs.request.page_size) =>
     \A r \in Matching :
       _convert_record_to_history_data(r) \in Range(qs.resp[1].response.data)

\* C38: the running buffer size statistic is exact.  In every reachable state in
\* which no thread holds buffer_lock, stats["buffer_size"] is the length of
\* data_buffer, after any interleaving of appends and drains.
C38_BufferSizeExact ==
  buffer_lock = 0 => stats.buffer_size = Len(data_buffer)

\* after a drain a second collection has been appended, and the lock is free
C38_Witness ==
  /\ buffer_lock = 0
  /\ drained # <<>>
  /\ Len(data_buffer) = 1
  /\ stats.buffer_size = 1
  /\ stats.total_collections >= 2

\* C39: task registration stays one-to-one.  Over every sequence of start() and
\* stop(), a start() that fails part-way through _setup_schedules included, each
\* task is registered at most once while the scheduler is Running, and no task
\* is registered once stop() has returned.  (A stop() called in Stopped returns
\* at once and leaves the state as it is: every Stopped state with the caller
\* idle is a state in which a stop() has returned.)
C39_RegisteredOnce ==
  /\ is_running => \A task \in Tasks : jobs[task] <= 1
  /\ (~is_running /\ main_pc = "idle") => jobs = NoJobs

====
